---- MODULE Spec2Model ----
(***************************************************************************)
(* A model of the tool registry and the tool descriptor builder            *)
(* (aideck/core/tools.py), the chat agent loop                             *)
(* (gpt_computer_agent/core/agent.py, driven by api/app.py) and the        *)
(* activity tracker: its keyword classifier, its summaries and its log     *)
(* file (aideck/services/activity_tracker.py, improved_activity_tracker.py,*)
(* activity_tools.py).                                                     *)
(*                                                                         *)
(* Python values are modelled as follows: None is the string "None", a     *)
(* dict is a function, a list is a sequence, str is a TLA+ string (TLC     *)
(* evaluates Len, \o and SubSeq on strings), an exception is a record      *)
(* [type, msg].                                                            *)
(***************************************************************************)
EXTENDS Integers, Sequences, FiniteSets, TLC

VARIABLES
    tools,          \* ToolRegistry.tools: dict name -> Tool
    regLog,         \* history of the registry operations performed (observer)
    regError,       \* exception raised by the last registry operation, or None
    messages,       \* GPTChatAgent.messages, the one history of the one agent
    pc,             \* position of the running turn inside GPTChatAgent.run
    conv,           \* conversation whose create_message request runs the turn
    turn,           \* number of turns started
    requests,       \* completion requests issued in the running turn
    sent,           \* the `messages` argument of the latest completion request
    response,       \* the latest completion response received in the turn
    tool_calls,     \* tool_calls of the first response of the turn
    idx,            \* index of the next tool call to dispatch
    ran,            \* Tool.run calls of the turn: handler outcome and outcome
    result,         \* value returned by run, or None
    error,          \* exception propagated by run, or None
    text_in,        \* classifier input <<user_activity, content_summary, window_title>>
    cat_tracker,    \* result of ActivityTracker._categorize_activity on text_in
    cat_improved,   \* result of categorize_activity on text_in
    activity_log,   \* ActivityTracker.activity_log of the global activity_tracker
    file,           \* the activity log file on disk, or NoFile
    call,           \* the latest call of a tracker or schema function: its
                    \* name, arguments, return value and exception raised
    conversations,  \* table conversations of the storage: id -> row
    message_rows,   \* table messages of the storage, in rowid order
    utcnow,         \* the clock read by datetime.utcnow()
    served,         \* number of API requests served
    reply           \* the latest API request: its conversation and its answer

registryVars == <<tools, regLog, regError>>
agentVars == <<messages, pc, conv, turn, requests, sent, response, tool_calls,
               idx, ran, result, error>>
classifierVars == <<text_in, cat_tracker, cat_improved>>
trackerVars == <<activity_log, file, call>>
storageVars == <<conversations, message_rows, utcnow, served, reply>>
vars == <<registryVars, agentVars, classifierVars, trackerVars, storageVars>>

None == "None"

\* Bounds of the model.
MaxTurns == 2
MaxRegOps == 3

(***************************************************************************)
(* Generic helpers.                                                        *)
(***************************************************************************)
Range(s) == {s[i] : i \in DOMAIN s}

(***************************************************************************)
(* String helpers (Python str methods used by the code).                   *)
(***************************************************************************)
\* `k in t` for two str
Contains(t, k) ==
    \E i \in 1..(Len(t) - Len(k) + 1) : SubSeq(t, i, i + Len(k) - 1) = k

\* s.startswith(p)
StartsWith(s, p) == Len(s) >= Len(p) /\ SubSeq(s, 1, Len(p)) = p

\* s.strip(), for the blank character
Strip(s) ==
    LET nb == {i \in 1..Len(s) : SubSeq(s, i, i) # " "}
    IN IF nb = {} THEN ""
       ELSE LET lo == CHOOSE i \in nb : \A j \in nb : i <= j
                hi == CHOOSE i \in nb : \A j \in nb : i >= j
            IN SubSeq(s, lo, hi)

\* s.split(':', 1)[1], for an s that holds a ':'
AfterColon(s) ==
    LET cs == {i \in 1..Len(s) : SubSeq(s, i, i) = ":"}
        c == CHOOSE i \in cs : \A j \in cs : i <= j
    IN SubSeq(s, c + 1, Len(s))

(***************************************************************************)
(* aideck/core/tools.py: callables, their signatures and their schemas.    *)
(*                                                                         *)
(* A callable is [fname, params, doc]; params is inspect.signature's       *)
(* ordered parameter list, each [name, annotation, has_default, kind]. A   *)
(* type annotation is [name, origin, args]: name is what                   *)
(* getattr(t, "__name__", str(t)) gives, origin is t.__origin__ (None when *)
(* t has none) and args is t.__args__. An Optional[T] value (T a record)   *)
(* is the empty tuple for None and <<v>> otherwise.                        *)
(***************************************************************************)
Ty(n) == [name |-> n, origin |-> None, args |-> <<>>]
NoneType == Ty("NoneType")
OptionalOf(t) == [name |-> "Optional", origin |-> "Union", args |-> <<t, NoneType>>]
ListOf(t) == [name |-> "List", origin |-> "list", args |-> <<t>>]
DictOf(k, v) == [name |-> "Dict", origin |-> "dict", args |-> <<k, v>>]

Param(n, t, d) ==
    [name |-> n, annotation |-> t, has_default |-> d, kind |-> "POSITIONAL_OR_KEYWORD"]
VarKeyword(n) ==
    [name |-> n, annotation |-> Ty("_empty"), has_default |-> FALSE, kind |-> "VAR_KEYWORD"]

\* the tool of the web application
search_web ==
    [fname |-> "search_web",
     params |-> <<Param("query", Ty("str"), FALSE), Param("max_results", Ty("int"), TRUE)>>,
     doc |-> <<"Search the web for information.">>]

\* other callables a caller can hand to Tool.from_function and register
lookup ==
    [fname |-> "lookup",
     params |-> <<Param("query", OptionalOf(Ty("str")), FALSE),
                  Param("tags", ListOf(Ty("int")), TRUE)>>,
     doc |-> <<"Look something up.", "", "  query: the text to look for  ">>]

run_any ==
    [fname |-> "run_any", params |-> <<VarKeyword("kwargs")>>, doc |-> <<>>]

Callables == {search_web, lookup, run_any}

\* a type_mapping that describes every basic type as a string
type_mapping_strings ==
    [n \in {"str", "int", "float", "bool", "list", "dict"} |-> [type |-> "string"]]

\* the local type_mapping of _parameters_from_type_hints
type_mapping ==
    [n \in {"str", "int", "float", "bool", "list", "dict"} |->
        CASE n = "str" -> [type |-> "string"]
          [] n = "int" -> [type |-> "integer"]
          [] n = "float" -> [type |-> "number"]
          [] n = "bool" -> [type |-> "boolean"]
          [] n = "list" -> [type |-> "array", items |-> [type |-> "string"]]
          [] n = "dict" -> [type |-> "object"]]

\* type_mapping.get(n, {"type": "string"})
MappingGet(n) == IF n \in DOMAIN type_mapping THEN type_mapping[n] ELSE [type |-> "string"]

\* "Handle Optional types": Union[T, None] is replaced by T
UnwrapOptional(t) ==
    IF t.origin = "Union"
    THEN LET non_none_types == SelectSeq(t.args, LAMBDA a : a.name # "NoneType")
         IN IF Len(non_none_types) = 1 THEN non_none_types[1] ELSE t
    ELSE t

\* the schema of one annotation ("Handle basic types", "Handle List, Dict, etc.")
TypeSchema(annotation) ==
    LET param_type == UnwrapOptional(annotation)
    IN IF param_type.name \in DOMAIN type_mapping THEN type_mapping[param_type.name]
       ELSE IF param_type.origin # None
       THEN IF param_type.origin = "list" /\ param_type.args # <<>>
            THEN [type |-> "array", items |-> MappingGet(param_type.args[1].name)]
            ELSE IF param_type.origin = "dict" /\ Len(param_type.args) = 2
            THEN [type |-> "object",
                  additionalProperties |-> MappingGet(param_type.args[2].name)]
            ELSE [type |-> "string"]
       ELSE [type |-> "string"]

\* "Add description from docstring if available": the last line that starts
\* with "<name>:" gives the description
WithDescription(schema, doc, n) ==
    LET hits == {i \in DOMAIN doc : StartsWith(Strip(doc[i]), n \o ":")}
    IN IF hits = {} THEN schema
       ELSE LET last == CHOOSE i \in hits : \A j \in hits : i >= j
            IN [description |-> Strip(AfterColon(doc[last]))] @@ schema

\* Tool._parameters_from_type_hints
ParametersFromTypeHints(func) ==
    LET ps == SelectSeq(func.params, LAMBDA p : p.name # "self")
    IN [type |-> "object",
        properties |->
            [n \in {ps[i].name : i \in DOMAIN ps} |->
                LET p == CHOOSE q \in Range(ps) : q.name = n
                IN WithDescription(TypeSchema(p.annotation), func.doc, n)],
        required |->
            LET req == SelectSeq(ps, LAMBDA p : ~p.has_default)
            IN [i \in DOMAIN req |-> req[i].name]]

\* `"**" in str(sig)`: the signature's text holds "**" when it declares a
\* **kwargs parameter (no default or annotation of Callables prints one)
SigHasStarStar(func) == \E p \in Range(func.params) : p.kind = "VAR_KEYWORD"

NoError == [type |-> None, msg |-> ""]
ToolError(m) == [type |-> "ToolError", msg |-> m]

\* _validate_signature without the check for schema properties the function lacks
ValidateSignatureExtraOnly(name, parameters, func) ==
    LET param_names == {p.name : p \in Range(func.params)}
        schema_params == DOMAIN parameters.properties
        extra == param_names \ schema_params
    IN IF extra # {} /\ ~SigHasStarStar(func)
       THEN ToolError("Function '" \o name \o "' has extra parameters not in schema")
       ELSE NoError

\* Tool._validate_signature: the exception it raises, or NoError
ValidateSignature(name, parameters, func) ==
    LET param_names == {p.name : p \in Range(func.params)}
        schema_params == DOMAIN parameters.properties
        missing == schema_params \ param_names
        extra == param_names \ schema_params
    IN IF missing # {}
       THEN ToolError("Function '" \o name \o "' is missing parameters")
       ELSE IF extra # {} /\ ~SigHasStarStar(func)
       THEN ToolError("Function '" \o name \o "' has extra parameters not in schema")
       ELSE NoError

\* Tool(name, description, parameters, func): the dataclass constructor with
\* __post_init__; [error, tool] with tool the empty tuple when it raises
NewTool(name, description, parameters, func) ==
    LET e == ValidateSignature(name, parameters, func)
    IN [error |-> e,
        tool |-> IF e = NoError
                 THEN <<[name |-> name, description |-> description,
                         parameters |-> parameters, func |-> func]>>
                 ELSE <<>>]

\* Tool.from_function; name, description, parameters are <<>> for None
FromFunction(func, name, description, parameters) ==
    NewTool(IF name = <<>> THEN func.fname ELSE name[1],
            IF description = <<>>
            THEN (IF func.doc = <<>> THEN "" ELSE func.doc[1])
            ELSE description[1],
            IF parameters = <<>> THEN ParametersFromTypeHints(func) ELSE parameters[1],
            func)

\* Tool.to_dict
ToDict(t) ==
    [type |-> "function",
     function |-> [name |-> t.name, description |-> t.description,
                   parameters |-> t.parameters]]

\* Tool.run: `handled` is what the call self.func(**kwargs) did, either
\* [kind |-> "return", value, exc |-> NoError] or [kind |-> "raise", exc].
\* `except Exception` catches the instances of Exception; KeyboardInterrupt,
\* SystemExit and GeneratorExit derive from BaseException alone.
BaseExceptionOnly == {"KeyboardInterrupt", "SystemExit", "GeneratorExit"}
IsException(exc) == exc.type \notin BaseExceptionOnly

Returned(v) == [kind |-> "return", value |-> v, exc |-> NoError]
Raised(e) == [kind |-> "raise", value |-> None, exc |-> e]

\* Tool.run that lets the handler's exception through
ToolRunReraise(t, handled) == handled

ToolRun(t, handled) ==
    IF handled.kind = "raise" /\ IsException(handled.exc)
    THEN Raised(ToolError("Error running tool '" \o t.name \o "': " \o handled.exc.msg))
    ELSE handled

(***************************************************************************)
(* ToolRegistry.                                                           *)
(***************************************************************************)
EmptyRegistry == <<>>

\* RegistryPut that keeps the entry a name already has
RegistryPutKeepFirst(d, t) ==
    [n \in DOMAIN d \cup {t.name} |-> IF n \in DOMAIN d THEN d[n] ELSE t]

\* self.tools[tool.name] = tool
RegistryPut(d, t) ==
    [n \in DOMAIN d \cup {t.name} |-> IF n = t.name THEN t ELSE d[n]]

\* ToolRegistry.get_tool: self.tools.get(name), <<>> for None
GetTool(d, name) == IF name \in DOMAIN d THEN <<d[name]>> ELSE <<>>

\* ToolRegistry.list_tools, in the order of the names given
ListTools(d, order) == [i \in DOMAIN order |-> ToDict(d[order[i]])]

\* an explicit `parameters` dict: every property a string
Schema(props, req) ==
    [type |-> "object", properties |-> [n \in props |-> [type |-> "string"]],
     required |-> req]

FromCallable(f, n, ps) ==
    [kind |-> "callable", func |-> f, name |-> n, description |-> <<>>, parameters |-> ps]

\* The arguments of register(tool, **kwargs) the model draws from: a callable
\* with the keyword arguments of from_function, or a Tool built before.
RegisterInputs ==
    { FromCallable(search_web, <<>>, <<>>),
      FromCallable(lookup, <<"search_web">>, <<>>),
      FromCallable(search_web, <<"get_time">>, <<Schema({"query"}, <<"query">>)>>),
      FromCallable(search_web, <<>>,
                   <<Schema({"query", "max_results", "lang"}, <<"query">>)>>),
      FromCallable(search_web, <<"get_time">>,
                   <<Schema({"query", "max_results"}, <<"max_results">>)>>),
      FromCallable(run_any, <<>>, <<Schema({}, <<>>)>>),
      [kind |-> "Tool",
       tool |-> NewTool("lookup", "Look something up.",
                        ParametersFromTypeHints(lookup), lookup).tool[1]] }

\* lines 165-166 of register: the Tool to store, or the error from_function raises
ToolOfInput(inp) ==
    IF inp.kind = "Tool" THEN [error |-> NoError, tool |-> <<inp.tool>>]
    ELSE FromFunction(inp.func, inp.name, inp.description, inp.parameters)

\* ToolRegistry.register
Register(inp) ==
    /\ Len(regLog) < MaxRegOps
    /\ LET made == ToolOfInput(inp)
       IN /\ regError' = made.error
          /\ tools' = IF made.tool = <<>> THEN tools ELSE RegistryPut(tools, made.tool[1])
          /\ regLog' = Append(regLog, [op |-> "register", tool |-> made.tool])
    /\ UNCHANGED <<agentVars, classifierVars, trackerVars, storageVars>>

\* ToolRegistry.clear
Clear ==
    /\ Len(regLog) < MaxRegOps
    /\ tools' = EmptyRegistry
    /\ regError' = NoError
    /\ regLog' = Append(regLog, [op |-> "clear", tool |-> <<>>])
    /\ UNCHANGED <<agentVars, classifierVars, trackerVars, storageVars>>

(***************************************************************************)
(* gpt_computer_agent/core/agent.py: GPTChatAgent.                         *)
(***************************************************************************)
\* conversations of the web application, all served by the one module-level agent
Conversations == {"c1", "c2"}

\* tool_call.function.arguments, a str: a JSON object, a JSON array, no JSON
ArgsObject == "{\"query\": \"tla\"}"
ArgsArray == "[1, 2]"
ArgsMalformed == "{\"query\": "
ArgStrings == {ArgsObject, ArgsArray, ArgsMalformed}

\* json.loads on the argument strings: the error raised and whether the value is a dict
JsonLoads(s) ==
    CASE s = ArgsObject -> [error |-> NoError, is_dict |-> TRUE]
      [] s = ArgsArray -> [error |-> NoError, is_dict |-> FALSE]
      [] OTHER -> [error |-> [type |-> "JSONDecodeError", msg |-> "Expecting value"],
                   is_dict |-> FALSE]

\* values a handler returns: [py_type, repr]
ResultList == [py_type |-> "list", repr |-> "[{\"title\": \"Result 1\"}]"]
ResultSet == [py_type |-> "set", repr |-> "{1}"]

\* json.dumps: the types the default encoder serialises
JsonDumps(v) ==
    IF v.py_type \in {"dict", "list", "tuple", "str", "int", "float", "bool", "NoneType"}
    THEN [error |-> NoError, text |-> v.repr]
    ELSE [error |-> [type |-> "TypeError",
                     msg |-> "Object of type " \o v.py_type \o " is not JSON serializable"],
          text |-> ""]

\* what a handler does when called
HandlerOutcomes ==
    { Returned(ResultList), Returned(ResultSet),
      Raised([type |-> "ValueError", msg |-> "bad query"]),
      Raised([type |-> "KeyboardInterrupt", msg |-> ""]) }

\* what self.client.chat.completions.create(...).choices[0].message does
CompletionErrors ==
    { [type |-> "APIConnectionError", msg |-> "Connection error."],
      [type |-> "IndexError", msg |-> "list index out of range"] }

ToolCall(i, n, a) == [id |-> i, function |-> [name |-> n, arguments |-> a]]

\* the non-empty tool_calls lists of a first response the model draws from;
\* a call's id is its position in the list
ToolCallLists ==
    { <<ToolCall(1, "search_web", ArgsObject)>>,
      <<ToolCall(1, "get_weather", ArgsObject)>>,
      <<ToolCall(1, "get_weather", ArgsMalformed)>>,
      <<ToolCall(1, "get_weather", ArgsArray)>>,
      <<ToolCall(1, "search_web", ArgsArray)>>,
      <<ToolCall(1, "search_web", ArgsObject), ToolCall(2, "get_weather", ArgsObject)>>,
      <<ToolCall(1, "get_weather", ArgsObject), ToolCall(2, "search_web", ArgsObject)>>,
      <<ToolCall(1, "search_web", ArgsObject), ToolCall(2, "search_web", ArgsObject)>> }

\* a response message: content (None with tool calls) and tool_calls (the
\* empty list stands for None and for [], both falsy at line 110)
FirstResponses ==
    {[content |-> "Hello", tool_calls |-> <<>>]}
        \cup {[content |-> None, tool_calls |-> tcs] : tcs \in ToolCallLists}

SecondResponses ==
    { [content |-> "Done", tool_calls |-> <<>>],
      [content |-> None, tool_calls |-> <<ToolCall(1, "search_web", ArgsObject)>>] }

NoResponse == [content |-> None, tool_calls |-> <<>>]

\* An entry of self.messages. `by` is not a key of the Python dict: it records
\* the conversation whose turn appended the entry.
Message(role, content, tcs, id, name, by) ==
    [role |-> role, content |-> content, tool_calls |-> tcs, tool_call_id |-> id,
     name |-> name, by |-> by]

\* line 93: the caller's message
UserMessage(c, m) == Message("user", m, <<>>, 0, None, c)
\* lines 107 and 136: the response message object itself
ResponseMessage(c, r) == Message("assistant", r.content, r.tool_calls, 0, None, c)
\* line 112
AgentMessage(c, tcs) == Message("agent", None, tcs, 0, None, c)
ToolMessageFirst(c, tc, text) == Message("tool", text, <<>>, 1, tc.function.name, c)
\* lines 123-128
ToolMessage(c, tc, text) == Message("tool", text, <<>>, tc.id, tc.function.name, c)

\* run starting from a fresh history
StartFresh(c, m) ==
    /\ pc \in {"idle", "returned", "raised"}
    /\ turn < MaxTurns
    /\ messages' = <<UserMessage(c, m)>>
    /\ pc' = "request"
    /\ conv' = c
    /\ turn' = turn + 1
    /\ requests' = 0
    /\ sent' = <<>>
    /\ response' = NoResponse
    /\ tool_calls' = <<>>
    /\ idx' = 1
    /\ ran' = <<>>
    /\ result' = None
    /\ error' = NoError
    /\ UNCHANGED <<registryVars, classifierVars, trackerVars, storageVars>>

\* agent.run(message) entered: line 93
Start(c, m) ==
    /\ pc \in {"idle", "returned", "raised"}
    /\ turn < MaxTurns
    /\ messages' = Append(messages, UserMessage(c, m))
    /\ pc' = "request"
    /\ conv' = c
    /\ turn' = turn + 1
    /\ requests' = 0
    /\ sent' = <<>>
    /\ response' = NoResponse
    /\ tool_calls' = <<>>
    /\ idx' = 1
    /\ ran' = <<>>
    /\ result' = None
    /\ error' = NoError
    /\ UNCHANGED <<registryVars, classifierVars, trackerVars, storageVars>>

\* the except clause retrying a failed first request once instead of raising
PropagateRetryOnce(e) ==
    /\ pc' = IF pc = "request" /\ requests = 0 /\ e.type = "APIConnectionError"
             THEN "request" ELSE "raised"
    /\ error' = e

\* lines 140-142: `except Exception ... raise` lets the exception leave run;
\* an exception that is no Exception leaves run as well
Propagate(e) ==
    /\ pc' = "raised"
    /\ error' = e

\* line 110 with the hasattr test alone
WantsToolsHasAttr(r) == TRUE

\* line 110: hasattr(response_message, 'tool_calls') and response_message.tool_calls
WantsTools(r) == r.tool_calls # <<>>

\* lines 96-112 and 138: the first completion request; `out` is what the
\* completion capability does, Raised(e) or Returned(response)
RequestCompletion(out) ==
    /\ pc = "request"
    /\ requests' = requests + 1
    /\ sent' = messages
    /\ IF out.kind = "raise"
       THEN /\ Propagate(out.exc)
            /\ UNCHANGED <<messages, response, tool_calls, result>>
       ELSE LET r == out.value
            IN /\ response' = r
               /\ error' = NoError
               /\ IF WantsTools(r)
                  THEN /\ messages' = messages \o
                            <<ResponseMessage(conv, r), AgentMessage(conv, r.tool_calls)>>
                       /\ tool_calls' = r.tool_calls
                       /\ pc' = "dispatch"
                       /\ result' = None
                  ELSE /\ messages' = Append(messages, ResponseMessage(conv, r))
                       /\ tool_calls' = <<>>
                       /\ pc' = "returned"
                       /\ result' = r.content
    /\ UNCHANGED <<conv, turn, idx, ran, registryVars, classifierVars, trackerVars, storageVars>>

\* DispatchOutcome with an unknown tool name treated as an error
DispatchOutcomeUnknownRaises(d, c, tool_call, handled) ==
    LET function_name == tool_call.function.name
        function_args == JsonLoads(tool_call.function.arguments)
        tool == GetTool(d, function_name)
    IN IF function_args.error # NoError
       THEN [error |-> function_args.error, append |-> <<>>, runs |-> <<>>]
       ELSE IF tool = <<>>
       THEN [error |-> [type |-> "KeyError", msg |-> function_name],
             append |-> <<>>, runs |-> <<>>]
       ELSE IF ~function_args.is_dict
       THEN [error |-> [type |-> "TypeError", msg |-> "argument after ** must be a mapping"],
             append |-> <<>>, runs |-> <<>>]
       ELSE LET function_response == ToolRun(tool[1], handled)
                dumped == JsonDumps(function_response.value)
                run == <<[tool |-> tool[1], handled |-> handled,
                          out |-> function_response]>>
            IN IF function_response.kind = "raise"
               THEN [error |-> function_response.exc, append |-> <<>>, runs |-> run]
               ELSE IF dumped.error # NoError
               THEN [error |-> dumped.error, append |-> <<>>, runs |-> run]
               ELSE [error |-> NoError,
                     append |-> <<ToolMessage(c, tool_call, dumped.text)>>,
                     runs |-> run]

\* lines 116-128, the body of the loop for one tool call: the exception it
\* raises (NoError if none), the messages it appends and the Tool.run calls
\* it makes. `handled` is what the handler does if it is called.
DispatchOutcome(d, c, tool_call, handled) ==
    LET function_name == tool_call.function.name
        function_args == JsonLoads(tool_call.function.arguments)
        tool == GetTool(d, function_name)
        Nothing(e) == [error |-> e, append |-> <<>>, runs |-> <<>>]
    IN IF function_args.error # NoError
       THEN Nothing(function_args.error)            \* json.loads raises
       ELSE IF tool = <<>>
       THEN Nothing(NoError)                        \* `if tool:` is false
       ELSE IF ~function_args.is_dict
       THEN \* tool.run(**function_args) with no mapping after **
            Nothing([type |-> "TypeError", msg |-> "argument after ** must be a mapping"])
       ELSE LET function_response == ToolRun(tool[1], handled)
                dumped == JsonDumps(function_response.value)
                run == <<[tool |-> tool[1], handled |-> handled,
                          out |-> function_response]>>
            IN IF function_response.kind = "raise"
               THEN [error |-> function_response.exc, append |-> <<>>, runs |-> run]
               ELSE IF dumped.error # NoError
               THEN [error |-> dumped.error, append |-> <<>>, runs |-> run]
               ELSE [error |-> NoError,
                     append |-> <<ToolMessage(c, tool_call, dumped.text)>>,
                     runs |-> run]

\* lines 115-128: one iteration of the loop over tool_calls
DispatchToolCall(handled) ==
    /\ pc = "dispatch"
    /\ idx <= Len(tool_calls)
    /\ LET o == DispatchOutcome(tools, conv, tool_calls[idx], handled)
       IN /\ messages' = messages \o o.append
          /\ ran' = ran \o o.runs
          /\ IF o.error # NoError
             THEN Propagate(o.error) /\ idx' = idx
             ELSE idx' = idx + 1 /\ UNCHANGED <<pc, error>>
    /\ UNCHANGED <<conv, turn, requests, sent, response, tool_calls, result,
                   registryVars, classifierVars, trackerVars, storageVars>>

\* AfterFollowup with multi-hop tool calling: tool calls of a later response
\* are dispatched too
AfterFollowupMultiHop(r) ==
    IF r.tool_calls # <<>>
    THEN /\ pc' = "dispatch"
         /\ result' = None
         /\ tool_calls' = r.tool_calls
         /\ idx' = 1
    ELSE /\ pc' = "returned"
         /\ result' = r.content
         /\ UNCHANGED <<tool_calls, idx>>

\* lines 135-138: the second response is appended and its content returned,
\* whatever tool calls it requests
AfterFollowup(r) ==
    /\ pc' = "returned"
    /\ result' = r.content
    /\ UNCHANGED <<tool_calls, idx>>

\* lines 131-138: the follow-up request, after the loop
RequestFollowup(out) ==
    /\ pc = "dispatch"
    /\ idx > Len(tool_calls)
    /\ requests' = requests + 1
    /\ sent' = messages
    /\ IF out.kind = "raise"
       THEN /\ Propagate(out.exc)
            /\ UNCHANGED <<messages, response, result, tool_calls, idx>>
       ELSE /\ response' = out.value
            /\ messages' = Append(messages, ResponseMessage(conv, out.value))
            /\ error' = NoError
            /\ AfterFollowup(out.value)
    /\ UNCHANGED <<conv, turn, ran, registryVars, classifierVars, trackerVars, storageVars>>

\* the registry operations of the application's setup: the agent is built with
\* no config.tools and agent.tool_registry.register is called once (app.py:107);
\* the callable registered is search_web as written at app.py:95
SetupLog == <<[op |-> "register", tool |-> ToolOfInput(FromCallable(search_web, <<>>, <<>>)).tool]>>

RECURSIVE Replay(_)
\* the registry a sequence of registry operations leaves
Replay(log) ==
    IF log = <<>> THEN EmptyRegistry
    ELSE LET before == Replay(SubSeq(log, 1, Len(log) - 1))
             last == log[Len(log)]
         IN IF last.op = "clear" THEN EmptyRegistry
            ELSE IF last.tool = <<>> THEN before
            ELSE RegistryPut(before, last.tool[1])

InitAgent ==
    /\ messages = <<>>
    /\ pc = "idle"
    /\ conv = None
    /\ turn = 0
    /\ requests = 0
    /\ sent = <<>>
    /\ response = NoResponse
    /\ tool_calls = <<>>
    /\ idx = 1
    /\ ran = <<>>
    /\ result = None
    /\ error = NoError

\* ToolRegistry.__init__
InitRegistry ==
    /\ regLog = <<>>
    /\ tools = EmptyRegistry
    /\ regError = NoError

\* no file written
NoFile == [origin |-> None, activities |-> <<>>, saved |-> <<>>]
\* no tracker or schema function called
NoCall == [name |-> None, args |-> <<>>, value |-> <<>>, error |-> NoError]

\* the global activity_tracker as constructed: an empty log
InitTrackerIdle ==
    /\ activity_log = <<>>
    /\ file = NoFile
    /\ call = NoCall

\* Storage.__init__ on a new database file: both tables empty, no API
\* request served
InitStorage ==
    /\ conversations = <<>>
    /\ message_rows = <<>>
    /\ utcnow = 1
    /\ served = 0
    /\ reply = [conversation_id |-> None, status |-> 0, content |-> None, sent |-> ""]

\* no text classified
InitClassifierIdle ==
    /\ text_in = <<"", "", "">>
    /\ cat_tracker = [category |-> None, confidence |-> <<0, 1>>]
    /\ cat_improved = [category |-> None, confidence |-> <<0, 1>>]

\* the agent constructed, its tool registered, no turn started
Init ==
    /\ regLog = SetupLog
    /\ tools = Replay(regLog)
    /\ regError = NoError
    /\ InitAgent
    /\ InitStorage
    /\ InitClassifierIdle
    /\ InitTrackerIdle

Next ==
    \/ \E c \in Conversations : Start(c, "hi")
    \/ \E e \in CompletionErrors : RequestCompletion(Raised(e))
    \/ \E r \in FirstResponses : RequestCompletion(Returned(r))
    \/ \E h \in HandlerOutcomes : DispatchToolCall(h)
    \/ \E e \in CompletionErrors : RequestFollowup(Raised(e))
    \/ \E r \in SecondResponses : RequestFollowup(Returned(r))

Spec == Init /\ [][Next]_vars

NextRegistry ==
    \/ \E inp \in RegisterInputs : Register(inp)
    \/ Clear

\* an empty registry, no agent turn, no text classified
InitRegistryOnly == InitRegistry /\ InitAgent /\ InitStorage /\ InitClassifierIdle /\ InitTrackerIdle

SpecRegistry == InitRegistryOnly /\ [][NextRegistry]_vars

(***************************************************************************)
(* aideck/services/activity_tracker.py and improved_activity_tracker.py:   *)
(* the keyword classifier.                                                 *)
(*                                                                         *)
(* A float confidence score / size is held as the fraction in lowest       *)
(* terms <<numerator, denominator>>: the list sizes are at most 26, so two *)
(* quotients are the same float exactly when they are the same fraction,   *)
(* and none of them is 3/10, so comparing with the float 0.3 is comparing  *)
(* the fractions.                                                          *)
(***************************************************************************)
RECURSIVE LowerRange(_, _, _)
\* the characters lo..hi of s, each lowered
LowerRange(s, lo, hi) ==
    LET UpperCase == "ABCDEFGHIJKLMNOPQRSTUVWXYZ"
        LowerCase == "abcdefghijklmnopqrstuvwxyz"
        LowerChar(ch) ==
            IF \E i \in 1..Len(UpperCase) : SubSeq(UpperCase, i, i) = ch
            THEN LET at == CHOOSE i \in 1..Len(UpperCase) : SubSeq(UpperCase, i, i) = ch
                 IN SubSeq(LowerCase, at, at)
            ELSE ch
    IN IF lo > hi THEN ""
       ELSE IF lo = hi THEN LowerChar(SubSeq(s, lo, lo))
       ELSE LET mid == (lo + hi) \div 2
            IN LowerRange(s, lo, mid) \o LowerRange(s, mid + 1, hi)

\* str.lower()
Lower(s) == LowerRange(s, 1, Len(s))

RECURSIVE Gcd(_, _)
Gcd(a, b) == IF b = 0 THEN a ELSE Gcd(b, a % b)

\* the float a / b (b > 0)
Float(a, b) == LET g == Gcd(a, b) IN <<a \div g, b \div g>>
\* x < y for two floats
FloatLess(x, y) == x[1] * y[2] < y[1] * x[2]

Zero == Float(0, 1)
\* a threshold of 0.5
ThresholdHalf == Float(1, 2)

\* the confidence threshold 0.3 of both classifiers
Threshold == Float(3, 10)

\* ActivityTracker.category_keywords, in the order of the dict
category_keywords ==
    <<[category |-> "work",
       keywords |-> <<"coding", "programming", "development", "writing", "editing",
                      "designing", "analyzing", "researching", "planning", "documenting",
                      "debugging", "testing", "reviewing", "spreadsheet", "excel",
                      "word", "document", "report", "presentation", "slide", "data",
                      "analysis", "calculation", "modeling", "database", "sql">>],
      [category |-> "communication",
       keywords |-> <<"meeting", "call", "video", "conference", "chat", "message",
                      "email", "outlook", "teams", "slack", "discord", "zoom",
                      "skype", "webex", "discussion", "collaboration", "review",
                      "feedback", "planning", "standup", "sync", "1:1">>],
      [category |-> "breaks",
       keywords |-> <<"break", "lunch", "coffee", "rest", "relax", "music", "video",
                      "youtube", "netflix", "game", "social media", "facebook",
                      "twitter", "instagram", "tiktok", "reddit", "news",
                      "entertainment">>]>>

\* improved_activity_tracker.py: the module-level lists
WORK_KEYWORDS ==
    <<"coding", "programming", "development", "writing", "editing",
      "designing", "analyzing", "researching", "planning", "documenting",
      "debugging", "testing", "reviewing", "spreadsheet", "excel",
      "word", "document", "report", "presentation", "slide", "data",
      "analysis", "calculation", "modeling", "database", "sql">>

COMMUNICATION_KEYWORDS ==
    <<"meeting", "call", "video", "conference", "chat", "message",
      "email", "outlook", "teams", "slack", "discord", "zoom",
      "skype", "webex", "discussion", "collaboration", "review",
      "feedback", "planning", "standup", "sync", "1:1">>

BREAKS_KEYWORDS ==
    <<"break", "lunch", "coffee", "rest", "relax", "music", "video",
      "youtube", "netflix", "game", "social media", "facebook",
      "twitter", "instagram", "tiktok", "reddit", "news", "entertainment">>

\* the count of the keywords of a list found in the text
Score(keywords, text) == Cardinality({i \in DOMAIN keywords : Contains(text, keywords[i])})

\* f"{a} {b} {c}".lower()
TextToAnalyze(user_activity, content_summary, window_title) ==
    Lower(user_activity \o " " \o content_summary \o " " \o window_title)

\* a max that returns the last key whose score is the highest
MaxKeyLast(scores) ==
    LET best == CHOOSE i \in DOMAIN scores :
                    /\ \A j \in DOMAIN scores : scores[j].score <= scores[i].score
                    /\ \A j \in (i + 1)..Len(scores) : scores[j].score < scores[i].score
    IN scores[best]

\* max(category_scores, key=category_scores.get): the first key, in the
\* order of the dict, whose score is the highest
MaxKey(scores) ==
    LET best == CHOOSE i \in DOMAIN scores :
                    /\ \A j \in DOMAIN scores : scores[j].score <= scores[i].score
                    /\ \A j \in 1..(i - 1) : scores[j].score < scores[i].score
    IN scores[best]

Categorized(c, f) == [category |-> c, confidence |-> f]

\* _categorize_activity reporting confidence 0.0 for what it leaves uncategorized
CategorizeActivityTrackerZeroed(user_activity, content_summary, window_title) ==
    LET text_to_analyze == TextToAnalyze(user_activity, content_summary, window_title)
        category_scores ==
            [i \in DOMAIN category_keywords |->
                [category |-> category_keywords[i].category,
                 score |-> Score(category_keywords[i].keywords, text_to_analyze),
                 size |-> Len(category_keywords[i].keywords)]]
        best == MaxKey(category_scores)
        confidence == Float(best.score, best.size)
    IN IF FloatLess(confidence, Threshold)
       THEN Categorized("uncategorized", Zero)
       ELSE Categorized(best.category, confidence)

\* ActivityTracker._categorize_activity(entry), on the three texts of the entry
CategorizeActivityTracker(user_activity, content_summary, window_title) ==
    LET text_to_analyze == TextToAnalyze(user_activity, content_summary, window_title)
        category_scores ==
            [i \in DOMAIN category_keywords |->
                [category |-> category_keywords[i].category,
                 score |-> Score(category_keywords[i].keywords, text_to_analyze),
                 size |-> Len(category_keywords[i].keywords)]]
    IN IF category_scores = <<>> THEN Categorized("uncategorized", Zero)
       ELSE LET best == MaxKey(category_scores)
                confidence == IF best.size > 0 THEN Float(best.score, best.size) ELSE Zero
            IN IF FloatLess(confidence, Threshold)
               THEN Categorized("uncategorized", confidence)
               ELSE Categorized(best.category, confidence)

\* categorize_activity without its threshold test: the best category always returned
CategorizeActivityImprovedNoThreshold(user_activity, content_summary, window_title) ==
    LET text_to_analyze == TextToAnalyze(user_activity, content_summary, window_title)
        category_scores ==
            <<[category |-> "work", score |-> Score(WORK_KEYWORDS, text_to_analyze),
               size |-> Len(WORK_KEYWORDS)],
              [category |-> "communication",
               score |-> Score(COMMUNICATION_KEYWORDS, text_to_analyze),
               size |-> Len(COMMUNICATION_KEYWORDS)],
              [category |-> "breaks", score |-> Score(BREAKS_KEYWORDS, text_to_analyze),
               size |-> Len(BREAKS_KEYWORDS)]>>
    IN IF \A i \in DOMAIN category_scores : category_scores[i].score = 0
       THEN Categorized("uncategorized", Zero)
       ELSE LET best == MaxKey(category_scores)
            IN Categorized(best.category, Float(best.score, best.size))

\* categorize_activity(user_activity, content_summary, window_title)
CategorizeActivityImproved(user_activity, content_summary, window_title) ==
    LET text_to_analyze == TextToAnalyze(user_activity, content_summary, window_title)
        category_scores ==
            <<[category |-> "work", score |-> Score(WORK_KEYWORDS, text_to_analyze),
               size |-> Len(WORK_KEYWORDS)],
              [category |-> "communication",
               score |-> Score(COMMUNICATION_KEYWORDS, text_to_analyze),
               size |-> Len(COMMUNICATION_KEYWORDS)],
              [category |-> "breaks", score |-> Score(BREAKS_KEYWORDS, text_to_analyze),
               size |-> Len(BREAKS_KEYWORDS)]>>
    IN IF \A i \in DOMAIN category_scores : category_scores[i].score = 0
       THEN Categorized("uncategorized", Zero)
       ELSE LET best == MaxKey(category_scores)
                confidence == IF best.size > 0 THEN Float(best.score, best.size) ELSE Zero
            IN IF FloatLess(confidence, Threshold)
               THEN Categorized("uncategorized", confidence)
               ELSE Categorized(best.category, confidence)

\* texts the classifier is given
Phrases ==
    { "",
      "coding and debugging",
      "meeting call video conference chat message email",
      "Reviewing the Database REPORT",
      "lunch break coffee music youtube netflix",
      "coding programming development writing editing designing analyzing researching" }

NotCategorized == Categorized(None, Zero)

InitClassifier ==
    /\ text_in \in Phrases \X Phrases \X Phrases
    /\ cat_tracker = NotCategorized
    /\ cat_improved = NotCategorized

\* _categorize_activity called on an entry holding the texts
CategorizeTracker ==
    /\ cat_tracker = NotCategorized
    /\ cat_tracker' = CategorizeActivityTracker(text_in[1], text_in[2], text_in[3])
    /\ UNCHANGED <<text_in, cat_improved, registryVars, agentVars, trackerVars, storageVars>>

\* categorize_activity called on the texts
CategorizeImproved ==
    /\ cat_improved = NotCategorized
    /\ cat_improved' = CategorizeActivityImproved(text_in[1], text_in[2], text_in[3])
    /\ UNCHANGED <<text_in, cat_tracker, registryVars, agentVars, trackerVars, storageVars>>

NextClassifier == CategorizeTracker \/ CategorizeImproved

\* the texts drawn, an empty registry, no agent turn
InitClassifierOnly == InitRegistry /\ InitAgent /\ InitStorage /\ InitClassifier /\ InitTrackerIdle

SpecClassifier == InitClassifierOnly /\ [][NextClassifier]_vars

(***************************************************************************)
(* aideck/services/activity_tracker.py: the activity log and its summary.  *)
(*                                                                         *)
(* A datetime is a record of its fields, compared field by field; an       *)
(* Optional[datetime] is <<>> for None and <<t>> otherwise. A float that   *)
(* the code only truncates with int() is kept as the exact quotient: the   *)
(* IEEE double and the exact value truncate alike for every log the model  *)
(* builds (the doubles first differ from the exact quotients at 29/50).    *)
(***************************************************************************)
\* the members of ActivityCategory, by value, in the order of the Enum
ActivityCategory == <<"work", "communication", "breaks", "uncategorized">>

\* SNAPSHOT_INTERVAL, in seconds
SNAPSHOT_INTERVAL == 10

DateTime(h, mi, sec, us) ==
    [year |-> 2024, month |-> 1, day |-> 15, hour |-> h, minute |-> mi,
     second |-> sec, microsecond |-> us]

\* a <= b for two naive datetimes
DateTimeLeq(a, b) ==
    LET key(t) == <<t.year, t.month, t.day, t.hour, t.minute, t.second, t.microsecond>>
        x == key(a)
        y == key(b)
        diff == {i \in DOMAIN x : x[i] # y[i]}
    IN diff = {} \/ LET first == CHOOSE i \in diff : \A j \in diff : i <= j
                    IN x[first] < y[first]

\* datetime.now().strftime("%Y-%m-%d")
Today == "2024-01-15"

ActivityEntry(ts, app, title, content, activity, cat, conf) ==
    [timestamp |-> ts, app_name |-> app, window_title |-> title,
     content_summary |-> content, user_activity |-> activity,
     category |-> cat, confidence |-> conf]

\* what add_activity is called with
ActivityInputs ==
    <<[app_name |-> "Visual Studio Code", window_title |-> "main.py - \"agent\"",
       content_summary |-> "",
       user_activity |-> "coding programming development writing editing designing analyzing researching"],
      [app_name |-> "Microsoft Teams", window_title |-> "Team Standup Meeting",
       content_summary |-> "",
       user_activity |-> "meeting call video conference chat message email"],
      [app_name |-> "Chrome", window_title |-> "YouTube", content_summary |-> "",
       user_activity |-> "lunch break coffee music youtube netflix"],
      [app_name |-> "Chrome", window_title |-> "C:\\tmp", content_summary |-> "",
       user_activity |-> "idle"]>>

\* _categorize_activity on each input of ActivityInputs
TrackerCategoryOf ==
    [i \in DOMAIN ActivityInputs |->
        CategorizeActivityTracker(ActivityInputs[i].user_activity,
                                  ActivityInputs[i].content_summary,
                                  ActivityInputs[i].window_title)]

\* categorize_activity on each input of ActivityInputs
ImprovedCategoryOf ==
    [i \in DOMAIN ActivityInputs |->
        CategorizeActivityImproved(ActivityInputs[i].user_activity,
                                   ActivityInputs[i].content_summary,
                                   ActivityInputs[i].window_title)]

\* add_activity, lines 79-88: the entry created at time now and categorized
NewEntry(i, now) ==
    ActivityEntry(now, ActivityInputs[i].app_name, ActivityInputs[i].window_title,
                  ActivityInputs[i].content_summary, ActivityInputs[i].user_activity,
                  TrackerCategoryOf[i].category, TrackerCategoryOf[i].confidence)

\* _filter_activities_by_time with both bounds exclusive
FilterActivitiesByTimeExclusive(log, start_time, end_time) ==
    LET start == IF start_time = <<>> THEN log[1].timestamp ELSE start_time[1]
        end == IF end_time = <<>> THEN log[Len(log)].timestamp ELSE end_time[1]
    IN SelectSeq(log, LAMBDA entry : /\ ~DateTimeLeq(entry.timestamp, start)
                                     /\ ~DateTimeLeq(end, entry.timestamp))

\* _filter_activities_by_time
FilterActivitiesByTime(log, start_time, end_time) ==
    LET start == IF start_time = <<>> THEN log[1].timestamp ELSE start_time[1]
        end == IF end_time = <<>> THEN log[Len(log)].timestamp ELSE end_time[1]
    IN SelectSeq(log, LAMBDA entry : /\ DateTimeLeq(start, entry.timestamp)
                                     /\ DateTimeLeq(entry.timestamp, end))

\* _calculate_total_minutes rounding to the nearest minute
CalculateTotalMinutesRounded(activities) ==
    IF activities = <<>> THEN 0
    ELSE (Len(activities) * SNAPSHOT_INTERVAL + 30) \div 60

\* _calculate_total_minutes: int(len(activities) * (SNAPSHOT_INTERVAL / 60))
CalculateTotalMinutes(activities) ==
    IF activities = <<>> THEN 0
    ELSE (Len(activities) * SNAPSHOT_INTERVAL) \div 60

RECURSIVE AppTimes(_)
\* the dict app_times of _calculate_apps_used, in insertion order
AppTimes(activities) ==
    IF activities = <<>> THEN <<>>
    ELSE LET before == AppTimes(SubSeq(activities, 1, Len(activities) - 1))
             app == activities[Len(activities)].app_name
             at == {i \in DOMAIN before : before[i].app = app}
         IN IF at = {}
            THEN Append(before, [app |-> app, duration |-> SNAPSHOT_INTERVAL])
            ELSE [i \in DOMAIN before |->
                    IF i \in at
                    THEN [before[i] EXCEPT !.duration = @ + SNAPSHOT_INTERVAL]
                    ELSE before[i]]

\* _calculate_apps_used
CalculateAppsUsed(activities) ==
    LET app_times == AppTimes(activities)
    IN [i \in DOMAIN app_times |->
          [app |-> app_times[i].app, minutes |-> app_times[i].duration \div 60]]

\* the dict category_times: SNAPSHOT_INTERVAL seconds per entry of the category
CategoryTimes(activities) ==
    [c \in Range(ActivityCategory) |->
        SNAPSHOT_INTERVAL *
            Cardinality({i \in DOMAIN activities : activities[i].category = c})]

\* int((seconds / total_seconds) * 100)
IntPercent(seconds, total_seconds) == (seconds * 100) \div total_seconds

\* the percentage of _calculate_time_distribution, line 217
Percentage(seconds, total_minutes) ==
    IF total_minutes > 0 THEN IntPercent(seconds, total_minutes * 60) ELSE 0

\* _calculate_time_distribution
CalculateTimeDistribution(activities, total_minutes) ==
    LET category_times == CategoryTimes(activities)
    IN [c \in Range(ActivityCategory) |->
          [minutes |-> category_times[c] \div 60,
           percentage |-> Percentage(category_times[c], total_minutes)]]

\* _group_by_category
GroupByCategory(activities) ==
    [c \in Range(ActivityCategory) |->
        SelectSeq(activities, LAMBDA entry : entry.category = c)]

\* _create_empty_summary with an empty time_distribution
CreateEmptySummaryBare ==
    [date |-> Today,
     total_tracked_minutes |-> 0,
     apps_used |-> <<>>,
     time_distribution |-> <<>>,
     categorized_activities |-> [c \in Range(ActivityCategory) |-> <<>>],
     total_activities |-> 0]

\* _create_empty_summary
CreateEmptySummary ==
    [date |-> Today,
     total_tracked_minutes |-> 0,
     apps_used |-> <<>>,
     time_distribution |->
        [c \in Range(ActivityCategory) |-> [minutes |-> 0, percentage |-> 0]],
     categorized_activities |-> [c \in Range(ActivityCategory) |-> <<>>],
     total_activities |-> 0]

\* get_summary(start_time, end_time) on the log
GetSummaryOf(log, start_time, end_time) ==
    IF log = <<>> THEN CreateEmptySummary
    ELSE LET filtered_activities == FilterActivitiesByTime(log, start_time, end_time)
         IN IF filtered_activities = <<>> THEN CreateEmptySummary
            ELSE LET total_minutes == CalculateTotalMinutes(filtered_activities)
                 IN [date |-> Today,
                     total_tracked_minutes |-> total_minutes,
                     apps_used |-> CalculateAppsUsed(filtered_activities),
                     time_distribution |->
                        CalculateTimeDistribution(filtered_activities, total_minutes),
                     categorized_activities |-> GroupByCategory(filtered_activities),
                     total_activities |-> Len(filtered_activities)]

(***************************************************************************)
(* improved_activity_tracker.py: generate_activity_summary and the         *)
(* productivity score of its __main__ block; activity_tools.py:            *)
(* get_productivity_insights.                                              *)
(***************************************************************************)
\* categorize_activity on the texts of an entry of the log
CategorizeEntryImproved(entry) ==
    LET is == {i \in DOMAIN ActivityInputs :
                 /\ ActivityInputs[i].user_activity = entry.user_activity
                 /\ ActivityInputs[i].content_summary = entry.content_summary
                 /\ ActivityInputs[i].window_title = entry.window_title}
    IN IF is # {} THEN ImprovedCategoryOf[CHOOSE i \in is : TRUE]
       ELSE CategorizeActivityImproved(entry.user_activity, entry.content_summary,
                                       entry.window_title)

\* the "summary" dict both summaries are reported with
MinutesByCategory(time_distribution) ==
    [work_minutes |-> time_distribution["work"].minutes,
     communication_minutes |-> time_distribution["communication"].minutes,
     breaks_minutes |-> time_distribution["breaks"].minutes,
     uncategorized_minutes |-> time_distribution["uncategorized"].minutes]

\* generate_activity_summary(activity_log)
GenerateActivitySummaryOf(log) ==
    IF log = <<>> THEN [error |-> "No activity data available"]
    ELSE LET categories == [i \in DOMAIN log |-> CategorizeEntryImproved(log[i]).category]
             category_times ==
                [c \in Range(ActivityCategory) |->
                    SNAPSHOT_INTERVAL * Cardinality({i \in DOMAIN log : categories[i] = c})]
             \* total_minutes is the float len * (10 / 60): total_minutes * 60 is
             \* the tracked seconds
             time_distribution ==
                [c \in Range(ActivityCategory) |->
                    [minutes |-> category_times[c] \div 60,
                     percentage |-> IntPercent(category_times[c],
                                               Len(log) * SNAPSHOT_INTERVAL)]]
         IN [date |-> Today,
             total_tracked_minutes |-> (Len(log) * SNAPSHOT_INTERVAL) \div 60,
             apps_used |-> CalculateAppsUsed(log),
             time_distribution |-> time_distribution,
             summary |-> MinutesByCategory(time_distribution),
             categorized_activities_count |->
                [c \in Range(ActivityCategory) |->
                    Cardinality({i \in DOMAIN log : categories[i] = c})]]

\* __main__, lines 178-190: the score printed, none when nothing is categorized
ProductivityScoreMain(summary) ==
    LET work_min == summary.summary.work_minutes
        comm_min == summary.summary.communication_minutes
        break_min == summary.summary.breaks_minutes
        total_categorized == work_min + comm_min + break_min
    IN IF total_categorized > 0
       THEN <<IntPercent(work_min + comm_min, total_categorized)>>
       ELSE <<>>

\* max(apps_used, key=lambda x: x["minutes"]): the first of the highest
TopApp(apps_used) ==
    apps_used[CHOOSE i \in DOMAIN apps_used :
                /\ \A j \in DOMAIN apps_used : apps_used[j].minutes <= apps_used[i].minutes
                /\ \A j \in 1..(i - 1) : apps_used[j].minutes < apps_used[i].minutes]

Recommendations ==
    <<"Use the Pomodoro technique: 25 minutes focused work + 5 minute break",
      "Schedule important tasks during your peak energy hours",
      "Minimize context switching between different types of work",
      "Take regular breaks to maintain long-term productivity">>

\* get_productivity_insights, from line 165 on, on the summary of line 163
ProductivityInsights(summary) ==
    IF summary.total_tracked_minutes = 0
    THEN [message |-> "No activity data available for insights"]
    ELSE LET work_time == summary.time_distribution["work"].minutes
             communication_time == summary.time_distribution["communication"].minutes
             break_time == summary.time_distribution["breaks"].minutes
             productive_time == work_time + communication_time
             productivity_score ==
                IF summary.total_tracked_minutes > 0
                THEN IntPercent(productive_time, summary.total_tracked_minutes)
                ELSE 0
             by_score ==
                IF productivity_score > 80
                THEN "Excellent productivity! You're making great use of your time."
                ELSE IF productivity_score > 60
                THEN "Good productivity. Consider taking more focused work sessions."
                ELSE IF productivity_score > 40
                THEN "Moderate productivity. Try to minimize distractions."
                ELSE "Low productivity detected. Consider setting specific goals and taking regular breaks."
             by_app ==
                IF summary.apps_used # <<>>
                THEN LET top_app == TopApp(summary.apps_used)
                     IN <<"Your most used app is " \o top_app.app \o " ("
                            \o ToString(top_app.minutes) \o " minutes)">>
                ELSE <<>>
             \* break_frequency = break_time / (total_tracked_minutes / 60)
             by_breaks ==
                IF break_time > 0
                THEN IF break_time * 60 < summary.total_tracked_minutes
                     THEN <<"Consider taking more frequent short breaks to maintain focus.">>
                     ELSE IF break_time * 60 > 3 * summary.total_tracked_minutes
                     THEN <<"You seem to be taking many breaks. Try consolidating them.">>
                     ELSE <<>>
                ELSE <<>>
         IN [productivity_score |-> productivity_score,
             insights |-> <<by_score>> \o by_app \o by_breaks,
             recommendations |-> Recommendations]

(***************************************************************************)
(* The summaries of a log: the log is one that add_activity calls made     *)
(* every SNAPSHOT_INTERVAL seconds leave, and the functions that read it   *)
(* are called on it. They leave the log as it is: a behaviour makes one    *)
(* call.                                                                   *)
(***************************************************************************)
\* the highest number of entries of one input in a log
MaxPerCategory == 7

\* the time of the i-th snapshot
TimeAt(i) ==
    DateTime(9, (SNAPSHOT_INTERVAL * (i - 1)) \div 60, (SNAPSHOT_INTERVAL * (i - 1)) % 60, 0)

\* the log of counts[k] add_activity calls with input k, for k = 1, 2, ...
LogOfCounts(counts) ==
    LET upto(k) == IF k = 0 THEN 0
                   ELSE IF k = 1 THEN counts[1]
                   ELSE IF k = 2 THEN counts[1] + counts[2]
                   ELSE IF k = 3 THEN counts[1] + counts[2] + counts[3]
                   ELSE counts[1] + counts[2] + counts[3] + counts[4]
        input(i) == CHOOSE k \in DOMAIN counts : upto(k - 1) < i /\ i <= upto(k)
    IN [i \in 1..upto(4) |-> NewEntry(input(i), TimeAt(i))]

\* the start_time and end_time arguments get_summary is called with
SummaryBounds == {<<>>, <<TimeAt(3)>>, <<TimeAt(40)>>}

Called(name, args, value) == [name |-> name, args |-> args, value |-> value, error |-> NoError]

\* ActivityTracker.get_summary(start_time, end_time)
GetSummary(start_time, end_time) ==
    /\ call' = Called("get_summary", <<start_time, end_time>>,
                      GetSummaryOf(activity_log, start_time, end_time))
    /\ UNCHANGED <<activity_log, file, registryVars, agentVars, classifierVars, storageVars>>

\* generate_activity_summary(activity_log) on the entries of the log
GenerateActivitySummary ==
    /\ call = NoCall
    /\ call' = Called("generate_activity_summary", <<>>,
                      GenerateActivitySummaryOf(activity_log))
    /\ UNCHANGED <<activity_log, file, registryVars, agentVars, classifierVars, storageVars>>

\* the productivity score of the __main__ block of improved_activity_tracker.py
MainProductivityScore ==
    /\ call = NoCall
    /\ activity_log # <<>>
    /\ call' = Called("__main__", <<>>,
                      ProductivityScoreMain(GenerateActivitySummaryOf(activity_log)))
    /\ UNCHANGED <<activity_log, file, registryVars, agentVars, classifierVars, storageVars>>

\* get_productivity_insights()
GetProductivityInsights ==
    /\ call' = Called("get_productivity_insights", <<>>,
                      ProductivityInsights(GetSummaryOf(activity_log, <<>>, <<>>)))
    /\ UNCHANGED <<activity_log, file, registryVars, agentVars, classifierVars, storageVars>>

InitSummary ==
    /\ InitRegistry
    /\ InitAgent
    /\ InitStorage
    /\ InitClassifierIdle
    /\ activity_log \in {LogOfCounts(counts) :
                            counts \in [DOMAIN ActivityInputs -> 0..MaxPerCategory]}
    /\ file = NoFile
    /\ call = NoCall

\* one call is made on the log
NextSummary ==
    \/ \E start_time, end_time \in SummaryBounds :
           call = NoCall /\ GetSummary(start_time, end_time)
    \/ GenerateActivitySummary
    \/ MainProductivityScore
    \/ call = NoCall /\ GetProductivityInsights

SpecSummary == InitSummary /\ [][NextSummary]_vars

(***************************************************************************)
(* activity_tracker.py: save_to_file and load_from_file. The file is the   *)
(* list under "activities": each element a JSON object, a function from    *)
(* its keys to the JSON text of their values.                              *)
(***************************************************************************)
RECURSIVE ParseNat(_)
\* int(s) for a str of digits
ParseNat(s) ==
    LET DigitValue(ch) == (CHOOSE i \in 1..10 : SubSeq("0123456789", i, i) = ch) - 1
    IN IF s = "" THEN 0
       ELSE 10 * ParseNat(SubSeq(s, 1, Len(s) - 1)) + DigitValue(SubSeq(s, Len(s), Len(s)))

\* datetime.isoformat() dropping the microseconds
IsoFormatSeconds(t) ==
    LET Pad(n, width) ==
            IF Len(ToString(n)) >= width THEN ToString(n)
            ELSE SubSeq("000000", 1, width - Len(ToString(n))) \o ToString(n)
    IN Pad(t.year, 4) \o "-" \o Pad(t.month, 2) \o "-" \o Pad(t.day, 2) \o "T"
           \o Pad(t.hour, 2) \o ":" \o Pad(t.minute, 2) \o ":" \o Pad(t.second, 2)

\* datetime.isoformat(): every field zero-padded to its width, the
\* microseconds written only when they are not 0
IsoFormat(t) ==
    LET Pad(n, width) ==
            IF Len(ToString(n)) >= width THEN ToString(n)
            ELSE SubSeq("000000", 1, width - Len(ToString(n))) \o ToString(n)
    IN Pad(t.year, 4) \o "-" \o Pad(t.month, 2) \o "-" \o Pad(t.day, 2) \o "T"
           \o Pad(t.hour, 2) \o ":" \o Pad(t.minute, 2) \o ":" \o Pad(t.second, 2)
           \o (IF t.microsecond # 0 THEN "." \o Pad(t.microsecond, 6) ELSE "")

\* datetime.fromisoformat(s), for the texts YYYY-MM-DD?HH:MM:SS[.ffffff]; any
\* other text of the model's files is no ISO format at all
FromIsoFormat(s) ==
    LET part(i, j) == SubSeq(s, i, j)
        AllDigits(f) == \A i \in 1..Len(f) : \E d \in 1..10 : SubSeq("0123456789", d, d) = SubSeq(f, i, i)
        DaysInMonth(year, month) ==
            IF month = 2
            THEN IF year % 4 = 0 /\ (year % 100 # 0 \/ year % 400 = 0) THEN 29 ELSE 28
            ELSE IF month \in {4, 6, 9, 11} THEN 30 ELSE 31
        shaped ==
            /\ Len(s) \in {19, 26}
            /\ AllDigits(part(1, 4)) /\ part(5, 5) = "-"
            /\ AllDigits(part(6, 7)) /\ part(8, 8) = "-"
            /\ AllDigits(part(9, 10))
            /\ AllDigits(part(12, 13)) /\ part(14, 14) = ":"
            /\ AllDigits(part(15, 16)) /\ part(17, 17) = ":"
            /\ AllDigits(part(18, 19))
            /\ Len(s) = 26 => (part(20, 20) \in {".", ","} /\ AllDigits(part(21, 26)))
        t == [year |-> ParseNat(part(1, 4)), month |-> ParseNat(part(6, 7)),
              day |-> ParseNat(part(9, 10)), hour |-> ParseNat(part(12, 13)),
              minute |-> ParseNat(part(15, 16)), second |-> ParseNat(part(18, 19)),
              microsecond |-> IF Len(s) = 26 THEN ParseNat(part(21, 26)) ELSE 0]
        failed(msg) == [error |-> [type |-> "ValueError", msg |-> msg], value |-> <<>>]
    IN IF ~shaped THEN failed("Invalid isoformat string: '" \o s \o "'")
       ELSE IF t.year = 0 THEN failed("year 0 is out of range")
       ELSE IF t.month \notin 1..12 THEN failed("month must be in 1..12")
       ELSE IF t.day \notin 1..DaysInMonth(t.year, t.month)
            THEN failed("day is out of range for month")
       ELSE IF t.hour > 23 THEN failed("hour must be in 0..23")
       ELSE IF t.minute > 59 THEN failed("minute must be in 0..59")
       ELSE IF t.second > 59 THEN failed("second must be in 0..59")
       ELSE [error |-> NoError, value |-> <<t>>]

\* an ActivityCategory(value) that takes every str for a member
CategoryOfValueAny(value) == [error |-> NoError, value |-> <<value>>]

\* ActivityCategory(value)
CategoryOfValue(value) ==
    IF value \in Range(ActivityCategory) THEN [error |-> NoError, value |-> <<value>>]
    ELSE [error |-> [type |-> "ValueError",
                     msg |-> "'" \o value \o "' is not a valid ActivityCategory"],
          value |-> <<>>]

RECURSIVE EscapeRange(_, _, _)
\* json's encoding of the characters lo..hi of a str: the quote and the
\* backslash are escaped with a backslash
EscapeRange(s, lo, hi) ==
    IF lo > hi THEN ""
    ELSE IF lo = hi
         THEN LET ch == SubSeq(s, lo, lo)
              IN IF ch = "\"" \/ ch = "\\" THEN "\\" \o ch ELSE ch
         ELSE LET mid == (lo + hi) \div 2
              IN EscapeRange(s, lo, mid) \o EscapeRange(s, mid + 1, hi)

\* json.dumps(s) for a str
JsonDumpsStr(s) == "\"" \o EscapeRange(s, 1, Len(s)) \o "\""

RECURSIVE KeepRange(_, _, _)
\* the characters lo..hi of an escaped text without the backslashes that
\* escape the character after them (those after an even run of backslashes)
KeepRange(s, lo, hi) ==
    IF lo > hi THEN ""
    ELSE IF lo = hi
         THEN LET others == {j \in 1..(lo - 1) : SubSeq(s, j, j) # "\\"}
                  run == (lo - 1) - (IF others = {} THEN 0
                                     ELSE CHOOSE j \in others : \A k \in others : k <= j)
              IN IF SubSeq(s, lo, lo) = "\\" /\ run % 2 = 0 THEN "" ELSE SubSeq(s, lo, lo)
         ELSE LET mid == (lo + hi) \div 2
              IN KeepRange(s, lo, mid) \o KeepRange(s, mid + 1, hi)

\* json.loads(t) for the JSON text of a str
JsonLoadsStr(t) ==
    LET inner == SubSeq(t, 2, Len(t) - 1)
    IN KeepRange(inner, 1, Len(inner))

\* the doubles of the model with their repr, which json writes and float() reads
Doubles ==
    <<[float |-> Float(0, 1), repr |-> "0.0"],
      [float |-> Float(4, 13), repr |-> "0.3076923076923077"],
      [float |-> Float(8, 22), repr |-> "0.36363636363636365"],
      [float |-> Float(6, 18), repr |-> "0.3333333333333333"],
      [float |-> Float(1, 2), repr |-> "0.5"]>>

\* save_to_file, lines 250-258: the JSON object of an entry
DumpEntry(entry) ==
    [timestamp |-> JsonDumpsStr(IsoFormat(entry.timestamp)),
     app_name |-> JsonDumpsStr(entry.app_name),
     window_title |-> JsonDumpsStr(entry.window_title),
     content_summary |-> JsonDumpsStr(entry.content_summary),
     user_activity |-> JsonDumpsStr(entry.user_activity),
     category |-> JsonDumpsStr(entry.category),
     confidence |-> Doubles[CHOOSE i \in DOMAIN Doubles :
                                Doubles[i].float = entry.confidence].repr]

\* load_from_file, lines 273-281: the entry of a JSON object, or the first
\* exception that building it raises
ParseEntry(entry_data) ==
    LET has(k) == k \in DOMAIN entry_data
        str(k) == JsonLoadsStr(entry_data[k])
        KeyError(k) == [type |-> "KeyError", msg |-> "'" \o k \o "'"]
        failed(e) == [error |-> e, entry |-> <<>>]
        timestamp == FromIsoFormat(str("timestamp"))
        category == CategoryOfValue(str("category"))
    IN IF ~has("timestamp") THEN failed(KeyError("timestamp"))
       ELSE IF timestamp.error # NoError THEN failed(timestamp.error)
       ELSE IF ~has("app_name") THEN failed(KeyError("app_name"))
       ELSE IF ~has("window_title") THEN failed(KeyError("window_title"))
       ELSE IF ~has("content_summary") THEN failed(KeyError("content_summary"))
       ELSE IF ~has("user_activity") THEN failed(KeyError("user_activity"))
       ELSE IF ~has("category") THEN failed(KeyError("category"))
       ELSE IF category.error # NoError THEN failed(category.error)
       ELSE [error |-> NoError,
             entry |-> <<ActivityEntry(timestamp.value[1],
                                       str("app_name"), str("window_title"),
                                       str("content_summary"), str("user_activity"),
                                       category.value[1],
                                       IF has("confidence")
                                       THEN Doubles[CHOOSE i \in DOMAIN Doubles :
                                                Doubles[i].repr = entry_data["confidence"]].float
                                       ELSE Float(0, 1))>>]

\* load_from_file, lines 271-282, on the list under "activities": the log
\* is emptied, then the entries are appended one by one until one raises
LoadEntries(activities) ==
    LET parsed == [k \in DOMAIN activities |-> ParseEntry(activities[k])]
        bad == {k \in DOMAIN activities : parsed[k].error # NoError}
        stop == IF bad = {} THEN Len(activities) + 1
                ELSE CHOOSE k \in bad : \A j \in bad : k <= j
    IN [log |-> [k \in 1..(stop - 1) |-> parsed[k].entry[1]],
        error |-> IF bad = {} THEN NoError ELSE parsed[stop].error]

\* load_from_file(filename) on the file f and the log: open raises before
\* the log is touched when there is no file
LoadFromFileOf(f, log) ==
    IF f.origin = None
    THEN [log |-> log,
          error |-> [type |-> "FileNotFoundError", msg |-> "No such file or directory"]]
    ELSE LoadEntries(f.activities)

(***************************************************************************)
(* The tracker with its file: activities are added, the log is saved, the  *)
(* file is edited by hand, and the file is loaded (by the tracker's        *)
(* method or by the load_activity_log tool).                               *)
(***************************************************************************)
MaxLog == 3

\* add_activity putting the new entry first in the log
AddActivityFirst(i, us) ==
    /\ Len(activity_log) < MaxLog
    /\ LET now == DateTime(9, 0, SNAPSHOT_INTERVAL * Len(activity_log), us)
       IN /\ activity_log' = <<NewEntry(i, now)>> \o activity_log
          /\ call' = Called("add_activity", <<i>>, NewEntry(i, now))
    /\ UNCHANGED <<file, registryVars, agentVars, classifierVars, storageVars>>

\* ActivityTracker.add_activity(app_name, window_title, content_summary,
\* user_activity) with input i, the clock advancing by the snapshot interval
\* and showing us microseconds
AddActivity(i, us) ==
    /\ Len(activity_log) < MaxLog
    /\ LET now == DateTime(9, 0, SNAPSHOT_INTERVAL * Len(activity_log), us)
       IN /\ activity_log' = Append(activity_log, NewEntry(i, now))
          /\ call' = Called("add_activity", <<i>>, NewEntry(i, now))
    /\ UNCHANGED <<file, registryVars, agentVars, classifierVars, storageVars>>

\* ActivityTracker.save_to_file(filename); saved remembers the log written
SaveToFile ==
    /\ file' = [origin |-> "save_to_file",
                activities |-> [k \in DOMAIN activity_log |-> DumpEntry(activity_log[k])],
                saved |-> activity_log]
    /\ call' = Called("save_to_file", <<>>, None)
    /\ UNCHANGED <<activity_log, registryVars, agentVars, classifierVars, storageVars>>

\* the files written by hand: a well-formed entry followed by one lacking a
\* field, with a bad timestamp, with an unknown category, without its
\* confidence; a file of well-formed entries; a file whose entries are not
\* in the order of their timestamps; and a file with an entry left
\* uncategorized, without a confidence, whose text the classifier categorizes
CraftedFiles ==
    LET GoodEntry(k) == DumpEntry(NewEntry(k, TimeAt(k)))
        Without(entry_data, key) == [k \in DOMAIN entry_data \ {key} |-> entry_data[k]]
    IN
    {<<GoodEntry(1), Without(GoodEntry(2), "app_name"), GoodEntry(3)>>,
     <<GoodEntry(1), [GoodEntry(2) EXCEPT !.timestamp = JsonDumpsStr("yesterday")]>>,
     <<GoodEntry(1), [GoodEntry(2) EXCEPT !.category = JsonDumpsStr("fun")]>>,
     <<[GoodEntry(2) EXCEPT !.timestamp = JsonDumpsStr("2024-13-15T09:00:00")], GoodEntry(1)>>,
     <<GoodEntry(1), Without(GoodEntry(2), "confidence")>>,
     <<GoodEntry(3), [GoodEntry(4) EXCEPT !.confidence = "0.5"]>>,
     <<GoodEntry(3), GoodEntry(1), GoodEntry(2)>>,
     <<Without([GoodEntry(1) EXCEPT !.category = JsonDumpsStr("uncategorized")],
               "confidence"), GoodEntry(4)>>}

\* the file is replaced by a hand-written one; no call is in progress
EditFile(activities) ==
    /\ file' = [origin |-> "editor", activities |-> activities, saved |-> <<>>]
    /\ call' = NoCall
    /\ UNCHANGED <<activity_log, registryVars, agentVars, classifierVars, storageVars>>

\* ActivityTracker.load_from_file(filename)
LoadFromFile ==
    /\ LET loaded == LoadFromFileOf(file, activity_log)
       IN /\ activity_log' = loaded.log
          /\ call' = IF loaded.error = NoError
                     THEN Called("load_from_file", <<>>, None)
                     ELSE [name |-> "load_from_file", args |-> <<>>, value |-> <<>>,
                           error |-> loaded.error]
    /\ UNCHANGED <<file, registryVars, agentVars, classifierVars, storageVars>>

\* the load_activity_log tool, activity_tools.py lines 131-154: every
\* exception of load_from_file becomes a result with success False
LoadActivityLog ==
    /\ LET loaded == LoadFromFileOf(file, activity_log)
       IN /\ activity_log' = loaded.log
          /\ call' = IF loaded.error = NoError
                     THEN Called("load_activity_log", <<>>,
                                 [success |-> TRUE, activities_loaded |-> Len(loaded.log)])
                     ELSE Called("load_activity_log", <<>>,
                                 [success |-> FALSE, error |-> loaded.error.msg])
    /\ UNCHANGED <<file, registryVars, agentVars, classifierVars, storageVars>>

\* _categorize_activity(entry) on an entry of the log
CategorizeEntryTracker(entry) ==
    LET is == {i \in DOMAIN ActivityInputs :
                 /\ ActivityInputs[i].user_activity = entry.user_activity
                 /\ ActivityInputs[i].content_summary = entry.content_summary
                 /\ ActivityInputs[i].window_title = entry.window_title}
    IN IF is # {} THEN TrackerCategoryOf[CHOOSE i \in is : TRUE]
       ELSE CategorizeActivityTracker(entry.user_activity, entry.content_summary,
                                      entry.window_title)

\* categorize_activities_interactive counting an entry as recategorized
\* also when the new confidence equals the old one
CategorizeActivitiesInteractiveLenient(log) ==
    LET uncategorized == {i \in DOMAIN log : log[i].category = "uncategorized"}
        again == [i \in DOMAIN log |-> CategorizeEntryTracker(log[i])]
        better == {i \in uncategorized : ~FloatLess(again[i].confidence, log[i].confidence)}
    IN [log |-> [i \in DOMAIN log |->
                    IF i \in better
                    THEN [log[i] EXCEPT !.category = again[i].category,
                                        !.confidence = again[i].confidence]
                    ELSE log[i]],
        value |-> IF uncategorized = {}
                  THEN [message |-> "No uncategorized activities found", categorized |-> 0]
                  ELSE [message |-> "Recategorized " \o ToString(Cardinality(better))
                                        \o " activities",
                        total_uncategorized |-> Cardinality(uncategorized),
                        categorized |-> Cardinality(better)]]

\* categorize_activities_interactive() on the log: the log it leaves and the
\* dict it returns. Each uncategorized entry is classified again and updated
\* when the new confidence is greater than its own
CategorizeActivitiesInteractiveOf(log) ==
    LET uncategorized == {i \in DOMAIN log : log[i].category = "uncategorized"}
        again == [i \in DOMAIN log |-> CategorizeEntryTracker(log[i])]
        better == {i \in uncategorized : FloatLess(log[i].confidence, again[i].confidence)}
    IN [log |-> [i \in DOMAIN log |->
                    IF i \in better
                    THEN [log[i] EXCEPT !.category = again[i].category,
                                        !.confidence = again[i].confidence]
                    ELSE log[i]],
        value |-> IF uncategorized = {}
                  THEN [message |-> "No uncategorized activities found", categorized |-> 0]
                  ELSE [message |-> "Recategorized " \o ToString(Cardinality(better))
                                        \o " activities",
                        total_uncategorized |-> Cardinality(uncategorized),
                        categorized |-> Cardinality(better)]]

\* the categorize_activities_interactive tool
CategorizeActivitiesInteractive ==
    /\ LET done == CategorizeActivitiesInteractiveOf(activity_log)
       IN /\ activity_log' = done.log
          /\ call' = Called("categorize_activities_interactive", <<>>, done.value)
    /\ UNCHANGED <<file, registryVars, agentVars, classifierVars, storageVars>>

InitTracker ==
    /\ InitRegistry
    /\ InitAgent
    /\ InitStorage
    /\ InitClassifierIdle
    /\ InitTrackerIdle

NextTracker ==
    \/ \E i \in {1, 4} : AddActivity(i, IF i = 1 THEN 250000 ELSE 0)
    \/ SaveToFile
    \/ \E activities \in CraftedFiles : EditFile(activities)
    \/ LoadFromFile
    \/ LoadActivityLog
    \/ CategorizeActivitiesInteractive
    \/ \E start_time, end_time \in {<<>>, <<TimeAt(2)>>} : GetSummary(start_time, end_time)
    \/ GetProductivityInsights

SpecTracker == InitTracker /\ [][NextTracker]_vars

(***************************************************************************)
(* Tool._parameters_from_type_hints called on its own, for callables with  *)
(* up to MaxParams parameters.                                             *)
(***************************************************************************)
MaxParams == 2

\* the annotation T | None (types.UnionType): it has __args__ but neither
\* __origin__ nor __name__, so its name is its text
UnionTypeOf(t) == [name |-> t.name \o " | None", origin |-> None, args |-> <<t, NoneType>>]

\* the callables _parameters_from_type_hints is called with: every
\* signature of up to MaxParams parameters with distinct names. The
\* annotations are the four basic types, Optional of a mapped, an unmapped
\* and a generic type, T | None, an unmapped class and a generic list
SchemaCallables ==
    LET names == {"query", "limit", "self"}
        annotations ==
            {Ty("str"), Ty("int"), Ty("bool"), Ty("float"), OptionalOf(Ty("int")),
             OptionalOf(Ty("Foo")), OptionalOf(ListOf(Ty("int"))), UnionTypeOf(Ty("int")),
             Ty("Foo"), ListOf(Ty("float"))}
        docs == {<<>>, <<"Do it.", "", "query: the text to look for">>}
        params == {Param(name, t, d) : name \in names, t \in annotations, d \in BOOLEAN}
    IN {[fname |-> "f", params |-> ps, doc |-> doc] :
           ps \in {qs \in UNION {[1..n -> params] : n \in 0..MaxParams} :
                       \A i, j \in DOMAIN qs : i # j => qs[i].name # qs[j].name},
           doc \in docs}

\* Tool._parameters_from_type_hints(func)
CallParametersFromTypeHints(func) ==
    /\ call = NoCall
    /\ call' = Called("_parameters_from_type_hints", <<func>>, ParametersFromTypeHints(func))
    /\ UNCHANGED <<activity_log, file, registryVars, agentVars, classifierVars, storageVars>>

InitSchema ==
    /\ InitRegistry
    /\ InitAgent
    /\ InitStorage
    /\ InitClassifierIdle
    /\ InitTrackerIdle

NextSchema == \E func \in SchemaCallables : CallParametersFromTypeHints(func)

SpecSchema == InitSchema /\ [][NextSchema]_vars

(***************************************************************************)
(* gpt_computer_agent/api/app.py and aideck/utils/storage.py: the          *)
(* conversation store and the create_message request.                      *)
(*                                                                         *)
(* The store is handled as the record [conversations, rows, now] of its    *)
(* two tables and the clock; metadata, always {} here, is left out.        *)
(***************************************************************************)
MaxRequests == 3

Db == [conversations |-> conversations, rows |-> message_rows, now |-> utcnow]

\* storage.py lines 231-275: INSERT OR REPLACE of the conversation's row,
\* DELETE of its messages, INSERT of conversation.messages
SaveConversation(db, conversation) ==
    LET row == [title |-> conversation.title,
                created_at |-> conversation.created_at,
                updated_at |-> conversation.updated_at]
        others == SelectSeq(db.rows, LAMBDA r : r.conversation_id # conversation.id)
        ids == DOMAIN db.conversations \cup {conversation.id}
        inserted == [k \in DOMAIN conversation.messages |->
                        [conversation_id |-> conversation.id,
                         role |-> conversation.messages[k].role,
                         content |-> conversation.messages[k].content,
                         timestamp |-> conversation.messages[k].timestamp]]
    IN [db EXCEPT !.conversations =
                      [i \in ids |-> IF i = conversation.id THEN row
                                     ELSE db.conversations[i]],
                  !.rows = others \o inserted]

\* storage.py lines 84-95: Conversation(title=title) draws a uuid4 id, which
\* no stored conversation has, and reads the clock for created_at and for
\* updated_at
CreateConversationOf(db, title) ==
    LET id == "n" \o ToString(Cardinality(DOMAIN db.conversations) + 1)
        conversation == [id |-> id, title |-> title, created_at |-> db.now,
                         updated_at |-> db.now + 1, messages |-> <<>>]
    IN [db |-> SaveConversation([db EXCEPT !.now = db.now + 2], conversation),
        id |-> id]

\* storage.py lines 97-147: None (<<>>) for an unknown id, else the
\* conversation with its messages ORDER BY timestamp ASC
GetConversationOf(db, conversation_id) ==
    IF conversation_id \notin DOMAIN db.conversations THEN <<>>
    ELSE LET row == db.conversations[conversation_id]
             mine == SelectSeq(db.rows, LAMBDA r : r.conversation_id = conversation_id)
             ordered == SortSeq(mine, LAMBDA a, b : a.timestamp < b.timestamp)
         IN <<[id |-> conversation_id, title |-> row.title,
               created_at |-> row.created_at, updated_at |-> row.updated_at,
               messages |-> [k \in DOMAIN ordered |->
                                [role |-> ordered[k].role,
                                 content |-> ordered[k].content,
                                 timestamp |-> ordered[k].timestamp]]]>>

\* storage.py lines 174-229: ValueError for an unknown id, else one row
\* inserted and the conversation's updated_at set
AddMessageOf(db, conversation_id, role, content) ==
    IF conversation_id \notin DOMAIN db.conversations
    THEN [error |-> [type |-> "ValueError",
                     msg |-> "Conversation " \o conversation_id \o " not found"],
          db |-> db]
    ELSE [error |-> NoError,
          db |-> [db EXCEPT
                    !.rows = Append(db.rows,
                                 [conversation_id |-> conversation_id, role |-> role,
                                  content |-> content, timestamp |-> db.now]),
                    !.conversations[conversation_id].updated_at = db.now + 1,
                    !.now = db.now + 2]]

\* app.py lines 176-236: the store the request leaves and its answer.
\* conversation_id is None when the request names no conversation.
CreateMessageOf(db, conversation_id, content, out) ==
    LET Answer(d, id, status, text) ==
            [db |-> d,
             reply |-> [conversation_id |-> id, status |-> status,
                        content |-> text, sent |-> content]]
        created == IF conversation_id = None
                   THEN CreateConversationOf(db, "New Conversation")
                   ELSE [db |-> db, id |-> conversation_id]
        id == created.id
        added == AddMessageOf(created.db, id, "user", content)
        conversation == GetConversationOf(added.db, id)
        answered == out.value
        \* line 212: message.content[:50] + (message.content[50:] and '...')
        title == IF Len(content) > 50 THEN SubSeq(content, 1, 50) \o "..."
                 ELSE content
        responded == AddMessageOf(added.db, id, "agent", answered.content)
        titled ==
            IF Len(conversation[1].messages) = 1
            THEN SaveConversation(
                     [responded.db EXCEPT !.now = responded.db.now + 1],
                     [conversation[1] EXCEPT !.title = title,
                                     !.updated_at = responded.db.now])
            ELSE responded.db
    IN IF added.error # NoError
       THEN \* raised outside the try: the framework answers 500
            Answer(added.db, id, 500, "Internal Server Error")
       ELSE IF conversation = <<>>
       THEN Answer(added.db, id, 404, "Conversation not found")
       ELSE IF out.kind = "raise"
       THEN Answer(added.db, id, 500, out.exc.msg)
       ELSE IF answered.py_type = "str"
       THEN Answer(added.db, id, 500, "'str' object has no attribute 'content'")
       ELSE IF responded.error # NoError
       THEN Answer(responded.db, id, 500, responded.error.msg)
       ELSE Answer([titled EXCEPT !.now = titled.now + 1], id, 200, answered.content)

\* POST /api/messages
CreateMessage(conversation_id, content, out) ==
    /\ served < MaxRequests
    /\ LET done == CreateMessageOf(Db, conversation_id, content, out)
       IN /\ conversations' = done.db.conversations
          /\ message_rows' = done.db.rows
          /\ utcnow' = done.db.now
          /\ reply' = done.reply
    /\ served' = served + 1
    /\ UNCHANGED <<registryVars, agentVars, classifierVars, trackerVars>>

\* POST /api/conversations, app.py lines 139-143
CreateConversation(title) ==
    /\ served < MaxRequests
    /\ LET done == CreateConversationOf(Db, title)
       IN /\ conversations' = done.db.conversations
          /\ message_rows' = done.db.rows
          /\ utcnow' = done.db.now
          /\ reply' = [conversation_id |-> done.id, status |-> 200,
                       content |-> None, sent |-> ""]
    /\ served' = served + 1
    /\ UNCHANGED <<registryVars, agentVars, classifierVars, trackerVars>>

\* the requests served. What `await agent.run(messages)` does is drawn from:
\* GPTChatAgent.run returns the content of the response message, a str; the
\* agent the API tests install returns an object with the attributes content
\* and metadata; or it raises. The contents posted are a short one and one
\* of more than 50 characters.
NextApi ==
    \/ \E title \in {"New Conversation", "Test"} : CreateConversation(title)
    \/ \E conversation_id \in DOMAIN conversations \cup {None, "nonexistent"},
          content \in {"Hello, world!",
                       "Please summarise what I did on my computer this morning"},
          out \in {Returned([py_type |-> "str", content |-> "Done"]),
                   Returned([py_type |-> "Mock",
                             content |-> "Hello! How can I help you?"]),
                   Raised([type |-> "Exception", msg |-> "Agent error"])} :
              CreateMessage(conversation_id, content, out)

\* the application started: its agent built, its tool registered, the store empty
SpecApi == Init /\ [][NextApi]_vars

(***************************************************************************)
(* Properties.                                                             *)
(***************************************************************************)
\* index of the last user message of a history, 0 if it has none
LastUserIndex(h) ==
    LET us == {i \in DOMAIN h : h[i].role = "user"}
    IN IF us = {} THEN 0 ELSE CHOOSE i \in us : \A j \in us : j <= i

\* the part of a history a turn has appended: from its user message on
ThisTurn(h) ==
    IF LastUserIndex(h) = 0 THEN <<>> ELSE SubSeq(h, LastUserIndex(h), Len(h))

ToolMessages(h) == SelectSeq(h, LAMBDA m : m.role = "tool")

\* the requested invocations whose name is registered
RegisteredCalls(tcs) == SelectSeq(tcs, LAMBDA tc : tc.function.name \in DOMAIN tools)

TurnOver == pc \in {"returned", "raised"}

\* C1: a turn issues at most two completion requests, and once the second
\* request is issued the turn is over: whatever the second response holds,
\* nothing is dispatched for it (Tool.run is called at most once per tool
\* call of the first response) and no third request follows.
C1_AtMostTwoRequests ==
    /\ requests <= 2
    /\ requests = 2 => TurnOver
    /\ Len(ran) <= Len(tool_calls)
    /\ Len(ToolMessages(ThisTurn(messages))) <= Len(tool_calls)

\* a turn returned from the follow-up request whose response requests a tool call
C1_Witness ==
    /\ pc = "returned"
    /\ requests = 2
    /\ response.tool_calls # <<>>

\* the turn's dispatch loop raised at tool_calls[idx]
RaisedInDispatch ==
    /\ pc = "raised"
    /\ requests = 1
    /\ response # NoResponse

\* loop invariant of the dispatch: each call dispatched so far whose name is
\* registered has appended one tool-result message, the others none; the
\* history sent by the follow-up request holds one per registered name
ToolResultsMatchRegistered ==
    /\ pc = "dispatch" =>
         Len(ToolMessages(ThisTurn(messages))) =
             Len(RegisteredCalls(SubSeq(tool_calls, 1, idx - 1)))
    /\ requests = 2 =>
         Len(ToolMessages(ThisTurn(sent))) = Len(RegisteredCalls(tool_calls))

SinceClear(log) ==
    LET cs == {i \in DOMAIN log : log[i].op = "clear"}
        from == IF cs = {} THEN 0 ELSE CHOOSE i \in cs : \A j \in cs : j <= i
    IN SelectSeq(SubSeq(log, from + 1, Len(log)), LAMBDA e : e.tool # <<>>)

\* C3: the registry holds exactly the names registered since the last clear,
\* no more entries than distinct names were ever used, under each name the
\* tool of the latest registration, and nothing under other names.
C3_LastRegistrationWins ==
    LET regs == SinceClear(regLog)
        names == {regs[i].tool[1].name : i \in DOMAIN regs}
        used == {regLog[i].tool[1].name : i \in {j \in DOMAIN regLog : regLog[j].tool # <<>>}}
    IN /\ DOMAIN tools = names
       /\ Cardinality(DOMAIN tools) <= Cardinality(used)
       /\ \A n \in names :
            LET is == {i \in DOMAIN regs : regs[i].tool[1].name = n}
                last == CHOOSE i \in is : \A j \in is : j <= i
            IN GetTool(tools, n) = regs[last].tool
       /\ \A n \in {"search_web", "lookup", "get_time", "run_any"} \ names :
            GetTool(tools, n) = <<>>

\* a name registered twice since the last clear, with two different tools
C3_Witness ==
    LET regs == SinceClear(regLog)
    IN \E i, j \in DOMAIN regs :
         /\ i < j
         /\ regs[i].tool[1].name = regs[j].tool[1].name
         /\ regs[i].tool # regs[j].tool
         /\ tools[regs[j].tool[1].name] = regs[j].tool[1]
         /\ \A k \in DOMAIN regs : k > j => regs[k].tool[1].name # regs[j].tool[1].name

\* what Tool.run owes its caller for an exception the handler raises: one
\* ToolError naming the tool and carrying the handler's message
IsUniformError(r) ==
    /\ r.out.kind = "raise"
    /\ r.out.exc.type = "ToolError"
    /\ Contains(r.out.exc.msg, r.tool.name)
    /\ Contains(r.out.exc.msg, r.handled.exc.msg)

\* C4 as stated: Tool.run returns what the handler returns, and for every
\* exception the handler raises it raises the uniform ToolError.
C4_Original ==
    \A i \in DOMAIN ran :
        /\ ran[i].handled.kind = "return" => ran[i].out = ran[i].handled
        /\ ran[i].handled.kind = "raise" => IsUniformError(ran[i])

\* C4 amended: Tool.run returns what the handler returns; for every
\* exception of class Exception the handler raises it raises the uniform
\* ToolError; an exception that is no Exception (KeyboardInterrupt,
\* SystemExit, GeneratorExit) passes through `except Exception` unchanged.
C4_UniformToolError ==
    \A i \in DOMAIN ran :
        LET r == ran[i]
            base_only == r.handled.exc.type \in {"KeyboardInterrupt", "SystemExit", "GeneratorExit"}
        IN /\ r.handled.kind = "return" => r.out = r.handled
           /\ (r.handled.kind = "raise" /\ ~base_only) => IsUniformError(r)
           /\ (r.handled.kind = "raise" /\ base_only) => r.out = r.handled

\* a handler raised ValueError and Tool.run raised the ToolError, which ended the turn
C4_Witness ==
    /\ pc = "raised"
    /\ error.type = "ToolError"
    /\ \E i \in DOMAIN ran :
          /\ ran[i].handled.exc.type = "ValueError"
          /\ ran[i].out.exc = error

ParamNames(t) == {p.name : p \in Range(t.func.params)}
Defaultless(t) == {p.name : p \in {q \in Range(t.func.params) : ~q.has_default}}

\* a register call that raised left the registry as it was
FailedRegisterKeepsRegistry == [][regError' # NoError => tools' = tools]_vars

\* C5 as stated: every registered Tool's schema has the handler's parameter
\* names as its property names and the parameters without a default as its
\* required list, and a failed registration registers nothing.
C5_Original ==
    /\ [](\A n \in DOMAIN tools :
            /\ DOMAIN tools[n].parameters.properties = ParamNames(tools[n])
            /\ Range(tools[n].parameters.required) = Defaultless(tools[n]))
    /\ FailedRegisterKeepsRegistry

\* C5 amended: every registered Tool's schema property names are parameter
\* names of the handler, and every parameter name of the handler is a schema
\* property unless the signature holds "**"; the required list is not
\* validated. A construction the validation refuses raises ToolError and
\* registers nothing.
C5_ValidatedNames ==
    /\ [](\A n \in DOMAIN tools :
            LET t == tools[n]
                props == DOMAIN t.parameters.properties
            IN /\ props \subseteq ParamNames(t)
               /\ (ParamNames(t) \subseteq props
                     \/ \E p \in Range(t.func.params) : p.kind = "VAR_KEYWORD"))
    /\ [](regError # NoError => regError.type = "ToolError")
    /\ FailedRegisterKeepsRegistry

\* a registration was refused while the registry holds a tool
C5_Witness ==
    /\ regError.type = "ToolError"
    /\ regLog[Len(regLog)].tool = <<>>
    /\ DOMAIN tools # {}

\* a completion request of the running turn failed
CompletionFailed == pc = "raised" /\ error \in CompletionErrors

\* C6: when a completion request fails the turn is over with that failure:
\* nothing is returned, the failed request is the last request of the turn
\* (the first request if no response was received, else the second) and
\* nothing is appended after it.
C6_FailurePropagates ==
    /\ [](CompletionFailed =>
            /\ result = None
            /\ requests = (IF response = NoResponse THEN 1 ELSE 2)
            /\ messages = sent)
    /\ [][(CompletionFailed /\ turn' = turn) => UNCHANGED agentVars]_vars

\* the follow-up request failed
C6_Witness ==
    /\ CompletionFailed
    /\ requests = 2
    /\ error.type = "APIConnectionError"

\* C7 as stated: the history sent to the completion capability in a turn
\* holds only messages of the turn's own conversation.
C7_Isolated == \A i \in DOMAIN sent : sent[i].by = conv

NoHandlerRaised == \A i \in DOMAIN ran : ran[i].handled.kind = "return"

\* what C8 says of a finished turn
FollowupShape ==
    /\ requests = 2 <=> tool_calls # <<>>
    /\ requests = 2 =>
          /\ idx = Len(tool_calls) + 1
          /\ ToolMessages(ThisTurn(sent)) = ToolMessages(ThisTurn(messages))
    /\ pc = "returned" => result = response.content

\* C8 as stated: in a turn in which no handler raises, the follow-up request
\* is issued exactly when the first response requests a tool invocation,
\* after every invocation was dispatched and with every tool-result message,
\* and run returns the content of the last response.
C8_Original ==
    (TurnOver /\ response # NoResponse /\ NoHandlerRaised) => FollowupShape

\* C8 amended: the same, in a turn in which the dispatch loop raises
\* nothing: no handler raises, every requested invocation's arguments are
\* JSON text (a JSON object for a registered tool) and every handler result
\* is JSON-serialisable.
C8_FollowupAfterDispatch ==
    (TurnOver /\ response # NoResponse /\ ~RaisedInDispatch) => FollowupShape

\* a turn returned the follow-up's content after two tool results
C8_Witness ==
    /\ pc = "returned"
    /\ requests = 2
    /\ Len(ToolMessages(ThisTurn(sent))) = 2
    /\ result = "Done"

IsPrefix(a, b) == Len(a) <= Len(b) /\ SubSeq(b, 1, Len(a)) = a

\* C9: the history only grows, every message keeping its place and content,
\* and the turn's user message is its last entry when the first request is
\* issued.
C9_AppendOnly ==
    /\ [][IsPrefix(messages, messages')]_vars
    /\ [](pc = "request" =>
            /\ messages # <<>>
            /\ messages[Len(messages)].role = "user"
            /\ messages[Len(messages)].by = conv)
    /\ [](requests >= 1 => LastUserIndex(sent) > 0 /\ IsPrefix(sent, messages))

\* a second turn ended with an error, the first turn's messages before it
C9_Witness ==
    /\ turn = 2
    /\ pc = "raised"
    /\ Len(messages) >= 5

\* the three categories with their keyword lists, as the source writes them
KeywordLists ==
    <<[category |-> "work", keywords |-> WORK_KEYWORDS],
      [category |-> "communication", keywords |-> COMMUNICATION_KEYWORDS],
      [category |-> "breaks", keywords |-> BREAKS_KEYWORDS]>>

\* a classifier result c obeys the confidence rule for the texts classified:
\* some category w of highest score has c's confidence equal to its score
\* over its list size; below 3/10 the category is uncategorized, from 3/10
\* on it is w
ObeysConfidenceRule(c) ==
    LET text == TextToAnalyze(text_in[1], text_in[2], text_in[3])
        score == [i \in DOMAIN KeywordLists |-> Score(KeywordLists[i].keywords, text)]
    IN \E w \in DOMAIN KeywordLists :
         /\ \A i \in DOMAIN KeywordLists : score[i] <= score[w]
         /\ c.confidence[1] * Len(KeywordLists[w].keywords) = score[w] * c.confidence[2]
         /\ c.confidence[2] > 0
         /\ IF 10 * c.confidence[1] < 3 * c.confidence[2]
            THEN c.category = "uncategorized"
            ELSE c.category = KeywordLists[w].category

\* C10: both classifiers return the winning category's match count over the
\* size of its keyword list as the confidence, unmodified also when it is
\* below 0.3 and the category is forced to uncategorized; from 0.3 on the
\* category is the winning one.
C10_ConfidenceRule ==
    /\ cat_tracker # NotCategorized => ObeysConfidenceRule(cat_tracker)
    /\ cat_improved # NotCategorized => ObeysConfidenceRule(cat_improved)

\* a text below the threshold: uncategorized with its confidence kept (2 / 26)
C10_Witness ==
    /\ cat_tracker = Categorized("uncategorized", <<1, 13>>)
    /\ cat_improved = cat_tracker

\* the keywords of a list found in the text the classifiers analyse
Matched(keywords) ==
    LET text == TextToAnalyze(text_in[1], text_in[2], text_in[3])
    IN {keywords[i] : i \in {j \in DOMAIN keywords : Contains(text, keywords[j])}}

\* both classifiers have classified text_in, with the same result
BothCategorized ==
    /\ cat_tracker # NotCategorized
    /\ cat_improved = cat_tracker

CodingAndDebugging == <<"coding and debugging", "", "">>

\* C11 as stated: "coding and debugging" is returned uncategorized with
\* confidence 2/25, two matches over a work list of 25 keywords.
C11_Original ==
    (text_in = CodingAndDebugging /\ BothCategorized) =>
        cat_tracker = Categorized("uncategorized", Float(2, 25))

\* C11 amended: "coding and debugging" matches exactly the work keywords
\* "coding" and "debugging" and no keyword of the other lists, and is returned
\* uncategorized by both classifiers with confidence 2/26: the work list has
\* 26 keywords in both sources.
C11_TwoOfTwentySix ==
    text_in = CodingAndDebugging =>
        /\ Matched(WORK_KEYWORDS) = {"coding", "debugging"}
        /\ Matched(COMMUNICATION_KEYWORDS) = {} /\ Matched(BREAKS_KEYWORDS) = {}
        /\ Len(WORK_KEYWORDS) = 26 /\ Len(category_keywords[1].keywords) = 26
        /\ cat_tracker \in {NotCategorized, Categorized("uncategorized", Float(2, 26))}
        /\ cat_improved \in {NotCategorized, Categorized("uncategorized", Float(2, 26))}

\* both classifiers have classified "coding and debugging"
C11_Witness == text_in = CodingAndDebugging /\ BothCategorized

SevenCommunication == <<"meeting call video conference chat message email", "", "">>

\* C12 as stated: the seven-keyword text is returned as communication with
\* confidence 7/21, seven matches over a communication list of 21 keywords.
C12_Original ==
    (text_in = SevenCommunication /\ BothCategorized) =>
        cat_tracker = Categorized("communication", Float(7, 21))

\* C12 amended: the text matches seven communication keywords and is returned
\* as communication by both classifiers with confidence 7/22, which is at
\* least 0.3: the communication list has 22 keywords in both sources.
C12_SevenOfTwentyTwo ==
    text_in = SevenCommunication =>
        /\ Matched(COMMUNICATION_KEYWORDS) =
              {"meeting", "call", "video", "conference", "chat", "message", "email"}
        /\ Len(COMMUNICATION_KEYWORDS) = 22 /\ Len(category_keywords[2].keywords) = 22
        /\ ~FloatLess(Float(7, 22), Float(3, 10))
        /\ cat_tracker \in {NotCategorized, Categorized("communication", Float(7, 22))}
        /\ cat_improved \in {NotCategorized, Categorized("communication", Float(7, 22))}

\* both classifiers have classified the seven-keyword text
C12_Witness == text_in = SevenCommunication /\ BothCategorized

\* the entries of the log that get_summary(start_time, end_time) selects: those
\* from start_time (default: the first entry's time) to end_time (default: the
\* last entry's time)
Selected(log, bounds) ==
    LET from == IF bounds[1] = <<>> THEN log[1].timestamp ELSE bounds[1][1]
        to == IF bounds[2] = <<>> THEN log[Len(log)].timestamp ELSE bounds[2][1]
    IN IF log = <<>> THEN {}
       ELSE {i \in DOMAIN log : /\ DateTimeLeq(from, log[i].timestamp)
                                 /\ DateTimeLeq(log[i].timestamp, to)}

GotSummary == call.name = "get_summary"

\* C13 as stated: in the summary of a non-empty selection each category's
\* percentage is floor(100 * category_seconds / total_seconds), with 10
\* seconds per entry of the category and 10 seconds per entry of the selection.
C13_Original ==
    (GotSummary /\ Selected(activity_log, call.args) # {}) =>
        LET sel == Selected(activity_log, call.args)
            total_seconds == SNAPSHOT_INTERVAL * Cardinality(sel)
        IN \A c \in Range(ActivityCategory) :
             LET category_seconds ==
                    SNAPSHOT_INTERVAL *
                        Cardinality({i \in sel : activity_log[i].category = c})
             IN call.value.time_distribution[c].percentage =
                    (100 * category_seconds) \div total_seconds

\* the apps and minutes C14 states for the entries `sel` of the log
MinutesAsStated(v, log, sel) ==
    LET apps == {log[i].app_name : i \in sel}
    IN /\ v.total_tracked_minutes = (Cardinality(sel) * 10) \div 60
       /\ Len(v.apps_used) = Cardinality(apps)
       /\ {v.apps_used[i].app : i \in DOMAIN v.apps_used} = apps
       /\ \A i \in DOMAIN v.apps_used :
            v.apps_used[i].minutes =
                (10 * Cardinality({j \in sel : log[j].app_name = v.apps_used[i].app})) \div 60
       /\ \A c \in Range(ActivityCategory) :
            v.time_distribution[c].minutes =
                (10 * Cardinality({j \in sel : log[j].category = c})) \div 60

\* C14: get_summary reports floor(n * 10 / 60) tracked minutes for the n
\* entries it selects, one apps_used element per distinct app_name of them
\* with floor(10 * entries of the app / 60) minutes, and floor(10 * entries of
\* the category / 60) minutes per category; generate_activity_summary reports
\* the same of the whole of a non-empty log.
C14_FlooredMinutes ==
    /\ GotSummary =>
         MinutesAsStated(call.value, activity_log, Selected(activity_log, call.args))
    /\ (call.name = "generate_activity_summary" /\ activity_log # <<>>) =>
         MinutesAsStated(call.value, activity_log, DOMAIN activity_log)

\* a summary of 9 selected entries out of more, of two apps, one of them with
\* a minute and the other without
C14_Witness ==
    /\ GotSummary
    /\ Cardinality(Selected(activity_log, call.args)) = 9
    /\ Len(activity_log) > 9
    /\ Len(call.value.apps_used) = 2
    /\ call.value.apps_used[1].minutes = 1
    /\ call.value.apps_used[2].minutes = 0
    /\ call.value.total_tracked_minutes = 1

\* C17: get_summary on an empty log, or with no entry in the requested
\* range, raises nothing and returns the summary of zeros: no tracked minute,
\* no activity, no app, and 0 minutes and 0 percent for each of the four
\* categories.
C17_EmptySummary ==
    (GotSummary /\ Selected(activity_log, call.args) = {}) =>
        /\ call.error = NoError
        /\ call.value.total_tracked_minutes = 0
        /\ call.value.total_activities = 0
        /\ call.value.apps_used = <<>>
        /\ DOMAIN call.value.time_distribution = Range(ActivityCategory)
        /\ \A c \in Range(ActivityCategory) :
             call.value.time_distribution[c] = [minutes |-> 0, percentage |-> 0]

\* a log of twelve entries and a range that holds none of them
C17_Witness ==
    /\ GotSummary
    /\ Len(activity_log) = 12
    /\ call.args[1] = <<TimeAt(40)>>
    /\ call.value.total_activities = 0

\* C18 as stated: the productivity score is floor(100 * (work_minutes +
\* communication_minutes) / total_categorized_minutes), the categorized
\* minutes being those of work, communication and breaks in the summary's
\* distribution, and 0 when there are none.
C18_Original ==
    LET d == GetSummaryOf(activity_log, <<>>, <<>>).time_distribution
        productive == d["work"].minutes + d["communication"].minutes
        total_categorized == productive + d["breaks"].minutes
        stated == IF total_categorized > 0
                  THEN (100 * productive) \div total_categorized
                  ELSE 0
    IN /\ (call.name = "get_productivity_insights"
             /\ "productivity_score" \in DOMAIN call.value) =>
            call.value.productivity_score = stated
       /\ (call.name = "__main__" /\ call.value # <<>>) => call.value[1] = stated

\* the last call loaded the file, and the file is the one save_to_file wrote
LoadedSavedFile ==
    /\ call.name \in {"load_from_file", "load_activity_log"}
    /\ file.origin = "save_to_file"

\* C15: save_to_file followed by load_from_file of the same file succeeds
\* and leaves the log that was saved: the same entries in the same order,
\* each with the same timestamp, app_name, window_title, content_summary,
\* user_activity, category and confidence.
C15_RoundTrip ==
    LoadedSavedFile =>
        /\ call.error = NoError
        /\ call.name = "load_activity_log" => call.value.success
        /\ activity_log = file.saved

\* a saved log with a timestamp that has microseconds, a title with quotes
\* and a title with a backslash was loaded after the log had changed
C15_Witness ==
    /\ LoadedSavedFile
    /\ Len(file.saved) >= 2
    /\ Len(activity_log) < MaxLog
    /\ \E k \in DOMAIN activity_log : activity_log[k].timestamp.microsecond # 0
    /\ \E k \in DOMAIN activity_log : activity_log[k].window_title = ActivityInputs[1].window_title
    /\ \E k \in DOMAIN activity_log : activity_log[k].window_title = ActivityInputs[4].window_title

\* the keys save_to_file writes for an entry
EntryKeys ==
    {"timestamp", "app_name", "window_title", "content_summary", "user_activity",
     "category", "confidence"}

\* an entry of a file with a missing field, an unparsable timestamp or a
\* category outside the enum
Malformed(entry_data) ==
    \/ DOMAIN entry_data # EntryKeys
    \/ ParseEntry(entry_data).error # NoError

\* the last call loaded the file, and the file has a malformed entry
LoadedMalformedFile ==
    /\ call.name \in {"load_from_file", "load_activity_log"}
    /\ \E k \in DOMAIN file.activities : Malformed(file.activities[k])

\* the last call, a load, reported an error
LoadFailed ==
    \/ call.name = "load_from_file" /\ call.error # NoError
    \/ call.name = "load_activity_log" /\ ~call.value.success

\* C16 as stated: loading a file with a malformed entry reports an error
\* and leaves no entry of that file in the activity log, not even the
\* well-formed entries before the malformed one.
C16_Original ==
    LoadedMalformedFile =>
        /\ LoadFailed
        /\ \A k \in DOMAIN file.activities :
               ParseEntry(file.activities[k]).error = NoError
                   => ParseEntry(file.activities[k]).entry[1] \notin Range(activity_log)

\* the schema type the mapping table gives a basic annotation
BasicSchemaType(n) ==
    CASE n = "str" -> "string"
      [] n = "int" -> "integer"
      [] n = "bool" -> "boolean"
      [] n = "float" -> "number"

\* the descriptor builder was called on a callable whose parameters are all
\* annotated str, int, bool or float and have no default
BuiltFromBasic ==
    /\ call.name = "_parameters_from_type_hints"
    /\ \A p \in Range(call.args[1].params) :
           /\ p.annotation \in {Ty("str"), Ty("int"), Ty("bool"), Ty("float")}
           /\ ~p.has_default

\* the built schema has exactly one property per parameter of params, typed
\* by the mapping table, and lists every parameter of params as required
OnePropertyEach(params) ==
    LET schema == call.value
    IN /\ DOMAIN schema.properties = {params[i].name : i \in DOMAIN params}
       /\ \A i \in DOMAIN params :
              /\ params[i].name \in DOMAIN schema.properties
              /\ schema.properties[params[i].name].type
                     = BasicSchemaType(params[i].annotation.name)
              /\ DOMAIN schema.properties[params[i].name] \subseteq {"type", "description"}
       /\ schema.required = [i \in DOMAIN params |-> params[i].name]

\* C19 as stated: for every callable whose parameters are all annotated
\* string, integer, boolean or float and have no default, the schema has
\* exactly one property per parameter, typed string, integer, boolean and
\* number respectively, and lists every parameter as required.
C19_Original == BuiltFromBasic => OnePropertyEach(call.args[1].params)

\* C19: for every callable whose parameters are all annotated string,
\* integer, boolean or float and have no default, the schema has exactly
\* one property per parameter other than a parameter named self, typed
\* string, integer, boolean and number respectively, and lists every such
\* parameter as required.
C19_BasicSchema ==
    BuiltFromBasic =>
        OnePropertyEach(SelectSeq(call.args[1].params, LAMBDA p : p.name # "self"))

\* a schema was built for two parameters of different basic types
C19_Witness ==
    /\ BuiltFromBasic
    /\ Len(call.args[1].params) = 2
    /\ \A p \in Range(call.args[1].params) : p.name # "self"
    /\ call.args[1].params[1].annotation = Ty("float")
    /\ call.args[1].params[2].annotation = Ty("bool")
    /\ call.value.required = <<"limit", "query">>
    /\ call.value.properties["limit"] = [type |-> "number"]

\* an annotation of an optional type: Optional[T] or T | None
IsOptional(t) == Len(t.args) = 2 /\ t.args[2] = NoneType /\ t.origin \in {"Union", None}

\* C20 as stated: a parameter is in the required list if and only if it has
\* no default, for every parameter of the callable including optional-typed
\* ones; an optional type is described by the schema of its non-null
\* alternative, and a type with no mapping is described as string.
C20_Original ==
    call.name = "_parameters_from_type_hints" =>
        LET params == call.args[1].params
            schema == call.value
            described(p) ==
                [k \in DOMAIN schema.properties[p.name] \ {"description"} |->
                    schema.properties[p.name][k]]
        IN \A p \in Range(params) :
               /\ p.name \in Range(schema.required) <=> ~p.has_default
               /\ p.name \in DOMAIN schema.properties
               /\ IsOptional(p.annotation) => described(p) = TypeSchema(p.annotation.args[1])
               /\ p.annotation = Ty("Foo") => described(p) = [type |-> "string"]

\* the keyword-match score of a category on the text the classifiers analyse
ScoreOf(category) ==
    LET list == CHOOSE i \in DOMAIN KeywordLists : KeywordLists[i].category = category
    IN Cardinality(Matched(KeywordLists[list].keywords))

\* the categories with a keyword list, and their place in the dicts' order
Scored == {KeywordLists[i].category : i \in DOMAIN KeywordLists}
PlaceOf(category) == CHOOSE i \in DOMAIN KeywordLists : KeywordLists[i].category = category

\* C23 as stated: a category other than uncategorized is returned only when
\* its score is strictly higher than the score of each of the other two;
\* when all three scores are zero the result is uncategorized with 0.0.
C23_Original ==
    \A r \in {cat_tracker, cat_improved} :
        /\ r.category \in Scored =>
               \A c \in Scored \ {r.category} : ScoreOf(c) < ScoreOf(r.category)
        /\ (r # NotCategorized /\ \A c \in Scored : ScoreOf(c) = 0) =>
               r = Categorized("uncategorized", Zero)

\* C23: a category other than uncategorized is returned only when its score
\* is at least the score of each of the other two and strictly higher than
\* the score of each category before it in the order work, communication,
\* breaks (of equal highest scores the first wins); when all three scores
\* are zero the result is uncategorized with confidence 0.0.
C23_FirstHighest ==
    \A r \in {cat_tracker, cat_improved} :
        /\ r.category \in Scored =>
               \A c \in Scored \ {r.category} :
                   /\ ScoreOf(c) <= ScoreOf(r.category)
                   /\ PlaceOf(c) < PlaceOf(r.category) => ScoreOf(c) < ScoreOf(r.category)
        /\ (r # NotCategorized /\ \A c \in Scored : ScoreOf(c) = 0) =>
               r = Categorized("uncategorized", Zero)

\* communication and breaks both score 7, the highest, and both classifiers
\* return communication
C23_Witness ==
    /\ BothCategorized
    /\ cat_tracker.category = "communication"
    /\ ScoreOf("communication") = ScoreOf("breaks")
    /\ ScoreOf("work") < ScoreOf("breaks")

\* C30: for every triple of texts, _categorize_activity and
\* categorize_activity return the same category and the same confidence,
\* also when every score is zero and when two categories tie for the highest.
C30_SameResult ==
    (cat_tracker # NotCategorized /\ cat_improved # NotCategorized)
        => cat_tracker = cat_improved

\* both classified a text on which communication and breaks tie for the
\* highest score, with the same result
C30_Witness ==
    /\ cat_tracker # NotCategorized
    /\ cat_improved # NotCategorized
    /\ ScoreOf("communication") = ScoreOf("breaks")
    /\ ScoreOf("communication") > ScoreOf("work")
    /\ cat_improved.category = "communication"
    /\ text_in[1] = ""

\* C21: every entry of the activity log has one of the four categories and
\* a confidence between 0 and 1 inclusive, after every sequence of
\* add_activity, categorize_activities_interactive, save_to_file and
\* load_from_file calls (the hand-written files of the model included).
C21_ValidEntries ==
    \A k \in DOMAIN activity_log :
        /\ activity_log[k].category \in {"work", "communication", "breaks", "uncategorized"}
        /\ ~FloatLess(activity_log[k].confidence, Float(0, 1))
        /\ ~FloatLess(Float(1, 1), activity_log[k].confidence)

\* categorize_activities_interactive ran on a log that was saved, with a
\* categorized and an uncategorized entry
C21_Witness ==
    /\ call.name = "categorize_activities_interactive"
    /\ file.origin = "save_to_file"
    /\ file.saved = activity_log
    /\ \E k \in DOMAIN activity_log : activity_log[k].category = "work"
    /\ \E k \in DOMAIN activity_log : activity_log[k].category = "uncategorized"

\* C22: get_summary(start, end) summarises exactly the entries with
\* start <= timestamp <= end, an omitted start being the timestamp of the
\* first entry of the log and an omitted end that of the last, and
\* total_activities is the number of entries selected.
C22_InclusiveRange ==
    GotSummary =>
        LET sel == Selected(activity_log, call.args)
            numbered == [k \in DOMAIN activity_log |-> [at |-> k, entry |-> activity_log[k]]]
            chosen(c) == SelectSeq(numbered, LAMBDA x : x.at \in sel /\ x.entry.category = c)
        IN /\ call.value.total_activities = Cardinality(sel)
           /\ \A c \in Range(ActivityCategory) :
                  call.value.categorized_activities[c] =
                      [j \in DOMAIN chosen(c) |-> chosen(c)[j].entry]

\* a summary from the timestamp of the third entry on, which is selected,
\* to the end of a longer log
C22_Witness ==
    /\ GotSummary
    /\ call.args = <<<<TimeAt(3)>>, <<>>>>
    /\ Len(activity_log) >= 5
    /\ call.value.total_activities = Len(activity_log) - 2

\* C25: get_summary, get_productivity_insights and save_to_file leave the
\* activity log unchanged (its length, its order and every field of every
\* entry), and add_activity changes it only by appending one entry, the one
\* it returns, at the end.
C25_Frame ==
    [][/\ call'.name \in {"get_summary", "get_productivity_insights", "save_to_file"}
           => activity_log' = activity_log
       /\ call'.name = "add_activity"
           => activity_log' = Append(activity_log, call'.value)]_vars

\* a third entry was added to a log of two, which the file saved before holds
C25_Witness ==
    /\ call.name = "add_activity"
    /\ Len(activity_log) = 3
    /\ file.origin = "save_to_file"
    /\ file.saved = SubSeq(activity_log, 1, 2)
    /\ activity_log[1].category # activity_log[2].category

\* C26 as stated: in every summary of get_summary each category's
\* percentage is an integer from 0 to 100 and the four percentages sum to at
\* most 100.
C26_Original ==
    GotSummary =>
        LET d == call.value.time_distribution
        IN /\ \A c \in Range(ActivityCategory) : d[c].percentage \in 0..100
           /\ d["work"].percentage + d["communication"].percentage
                  + d["breaks"].percentage + d["uncategorized"].percentage <= 100

\* C27 as stated: get_summary with neither start_time nor end_time reports
\* as total_activities the number of entries of the activity log.
C27_Original ==
    (GotSummary /\ call.args = <<<<>>, <<>>>>)
        => call.value.total_activities = Len(activity_log)

\* the log is as add_activity built it: every entry has the category and
\* the confidence the classifier gives its texts
AsAdded(log) ==
    \A k \in DOMAIN log :
        /\ log[k].category = CategorizeEntryTracker(log[k]).category
        /\ log[k].confidence = CategorizeEntryTracker(log[k]).confidence

C24_ResultsFollowInvocations ==
    LET results == ToolMessages(ThisTurn(messages))
        Produced(k, i) ==
            /\ results[k].tool_call_id = tool_calls[i].id
            /\ results[k].name = tool_calls[i].function.name
    IN /\ \E f \in [DOMAIN results -> DOMAIN tool_calls] :
              /\ \A k \in DOMAIN results : Produced(k, f[k])
              /\ \A k, l \in DOMAIN results : k < l => f[k] < f[l]
       /\ Len(results) <= Len(ran)
       /\ \A k \in DOMAIN results :
              /\ ran[k].tool.name = results[k].name
              /\ results[k].content = JsonDumps(ran[k].out.value).text

\* a turn whose first response requested two invocations, the first one of an
\* unregistered tool, has appended the tool-result message of the second; or
\* both invocations have appended theirs
C24_Witness ==
    LET results == ToolMessages(ThisTurn(messages))
    IN /\ Len(tool_calls) = 2
       /\ idx > 2
       /\ \/ Len(results) = 2
          \/ Len(results) = 1 /\ results[1].tool_call_id = 2

\* the messages stored under the conversation of the latest request
StoredMessages == GetConversationOf(Db, reply.conversation_id)[1].messages

\* a create_message request answered with the agent's response
Succeeded == reply.status = 200 /\ reply.content # None

\* C28: after a create_message request succeeds, the stored conversation
\* contains the user's message and, after it, the agent's response that was
\* returned to the caller, for the first message of a conversation (whose
\* title is then updated) as for later ones.
C28_Original ==
    Succeeded =>
        \E i, j \in DOMAIN StoredMessages :
            /\ i < j
            /\ StoredMessages[i].role = "user"
            /\ StoredMessages[i].content = reply.sent
            /\ StoredMessages[j].role = "agent"
            /\ StoredMessages[j].content = reply.content

====
